---- MODULE Spec2Model ----
(***************************************************************************)
(* Model of the schema-introspecting CRUD layer (utils/db_connection.py),  *)
(* of the CRUD page that drives it (pages/crud_operations.py) and of the   *)
(* catalog's run_query (pages/sql_queries.py).                             *)
(*                                                                         *)
(* Text is a sequence of one-character strings, so that strip(), lower()   *)
(* and startswith() are computed character by character.  Str(s) turns a   *)
(* text into a TLA+ string, for comparison with a literal.                 *)
(***************************************************************************)
EXTENDS Integers, Sequences, FiniteSets, TLC

VARIABLES
    call,       \* the record of the last library call: inputs, outcome, result
    openConns,  \* number of connections that are open between calls
    store,      \* the engine's durable state for the selected table
    session,    \* the CRUD page's st.session_state
    page,       \* what the last run of a page's script selected and showed
    lake,       \* the data of the catalog's SQLite file, as its queries read it
    today,      \* the date on which the next statement executes, in days
    modules     \* the page modules app.py has imported (sys.modules)

vars == <<call, openConns, store, session, page, lake, today, modules>>

---------------------------------------------------------------------------
(* Bounds of the model.                                                    *)

\* calls start only while at most this many leaked connections are open
MaxLeaked == 0
\* the selected table holds at most this many rows
MaxRows == 2

---------------------------------------------------------------------------
(* Text: Python str operations.                                            *)

\* characters str.strip() removes (ASCII whitespace used by the inputs)
IsSpace(c) == c \in {" ", "\t", "\n"}

UpperToLower ==
    [c \in {"A","B","C","D","E","F","G","H","I","J","K","L","M",
            "N","O","P","Q","R","S","T","U","V","W","X","Y","Z"} |->
        CASE c = "A" -> "a" [] c = "B" -> "b" [] c = "C" -> "c" [] c = "D" -> "d"
          [] c = "E" -> "e" [] c = "F" -> "f" [] c = "G" -> "g" [] c = "H" -> "h"
          [] c = "I" -> "i" [] c = "J" -> "j" [] c = "K" -> "k" [] c = "L" -> "l"
          [] c = "M" -> "m" [] c = "N" -> "n" [] c = "O" -> "o" [] c = "P" -> "p"
          [] c = "Q" -> "q" [] c = "R" -> "r" [] c = "S" -> "s" [] c = "T" -> "t"
          [] c = "U" -> "u" [] c = "V" -> "v" [] c = "W" -> "w" [] c = "X" -> "x"
          [] c = "Y" -> "y" [] c = "Z" -> "z"]

LowerChar(c) == IF c \in DOMAIN UpperToLower THEN UpperToLower[c] ELSE c

\* str.lower()
Lower(s) == [i \in 1..Len(s) |-> LowerChar(s[i])]

RECURSIVE LStrip(_)
LStrip(s) == IF s # <<>> /\ IsSpace(Head(s)) THEN LStrip(Tail(s)) ELSE s

RECURSIVE RStrip(_)
RStrip(s) ==
    IF s # <<>> /\ IsSpace(s[Len(s)]) THEN RStrip(SubSeq(s, 1, Len(s) - 1)) ELSE s

\* str.strip()
Strip(s) == RStrip(LStrip(s))

\* str.startswith(p)
StartsWith(s, p) == Len(s) >= Len(p) /\ SubSeq(s, 1, Len(p)) = p

\* ", ".join(parts)
RECURSIVE Join(_, _)
Join(sep, parts) ==
    IF parts = <<>> THEN <<>>
    ELSE IF Len(parts) = 1 THEN parts[1]
    ELSE parts[1] \o sep \o Join(sep, Tail(parts))

\* the text as one string
RECURSIVE Str(_)
Str(s) == IF s = <<>> THEN "" ELSE Head(s) \o Str(Tail(s))

DigitChars == <<"0", "1", "2", "3", "4", "5", "6", "7", "8", "9">>

RECURSIVE NatText(_)
NatText(n) ==
    IF n < 10 THEN <<DigitChars[n + 1]>>
    ELSE NatText(n \div 10) \o <<DigitChars[(n % 10) + 1]>>

\* str(int(n)) as the f-string formats it
IntText(n) == IF n < 0 THEN <<"-">> \o NatText(-n) ELSE NatText(n)

\* whether sub occurs in s
Contains(s, sub) ==
    \E i \in 1..(Len(s) - Len(sub) + 1) : SubSeq(s, i, i + Len(sub) - 1) = sub

---------------------------------------------------------------------------
(* Literals of the SQL builders.  BQ is the identifier quote U+0060, which  *)
(* a string literal cannot hold; the model writes it as the token "<bq>".  *)

BQ == "<bq>"

SelectPrefix == <<"s", "e", "l", "e", "c", "t">>
FetchHead ==
    <<"S", "E", "L", "E", "C", "T", " ", "*", " ", "F", "R", "O", "M", " ",
      BQ>>
FetchMid == <<BQ, " ", "L", "I", "M", "I", "T", " ">>
Semi == <<";">>
Backtick == <<BQ>>
CommaSpace == <<",", " ">>
Placeholder == <<"%", "s">>
InsertHead ==
    <<"I", "N", "S", "E", "R", "T", " ", "I", "N", "T", "O", " ", BQ>>
InsertCols == <<BQ, " ", "(">>
InsertValues == <<")", " ", "V", "A", "L", "U", "E", "S", " ", "(">>
InsertTail == <<")", ";">>
DeleteHead ==
    <<"D", "E", "L", "E", "T", "E", " ", "F", "R", "O", "M", " ", BQ>>
WhereMid == <<BQ, " ", "W", "H", "E", "R", "E", " ">>
UpdateHead == <<"U", "P", "D", "A", "T", "E", " ", BQ>>
SetMid == <<BQ, " ", "S", "E", "T", " ">>
WhereKw == <<" ", "W", "H", "E", "R", "E", " ">>

---------------------------------------------------------------------------
(* Inputs the calls are tried on.                                          *)

TxtPlayers == <<"p", "l", "a", "y", "e", "r", "s">>
TxtTable == <<"t", "a", "b", "l", "e">>
TxtName == <<"n", "a", "m", "e">>
TxtTeam == <<"t", "e", "a", "m">>
TxtId == <<"i", "d">>
ValIndia == <<"I", "n", "d", "i", "a">>
ValTest == <<"T", "e", "s", "t", " ", "P", "l", "a", "y", "e", "r">>

QSelect1 == <<"s", "e", "l", "e", "c", "t", " ", "1">>
QSelectMixed == <<"S", "e", "L", "e", "C", "t", " ", "1">>
QSelectDrop ==
    <<"s", "e", "l", "e", "c", "t", " ", "1", ";", " ", "D", "R", "O", "P",
      " ", "T", "A", "B", "L", "E", " ", "p", "l", "a", "y", "e", "r", "s">>
QSelectx == <<"s", "e", "l", "e", "c", "t", "x">>
QSelec == <<"s", "e", "l", "e", "c">>
QDrop ==
    <<"D", "R", "O", "P", " ", "T", "A", "B", "L", "E", " ", "p", "l", "a",
      "y", "e", "r", "s">>
QWith ==
    <<"W", "I", "T", "H", " ", "a", " ", "A", "S", " ", "(", "s", "e", "l",
      "e", "c", "t", " ", "1", ")", " ", "s", "e", "l", "e", "c", "t", " ",
      "1">>
QParen == <<"(", "s", "e", "l", "e", "c", "t", " ", "1", ")">>
WIdEq1 == <<"i", "d", " ", "=", " ", "1">>
SName == <<"n", "a", "m", "e", "=", "'", "x", "'">>

\* leading and trailing whitespace put around a body
Pads == {<<<<>>, <<>>>>, <<<<" ">>, <<>>>>, <<<<>>, <<"\n">>>>,
         <<<<"\t", "\n">>, <<" ">>>>}

Padded(bodies) == {p[1] \o b \o p[2] : p \in Pads, b \in bodies}

TableInputs == {TxtPlayers, TxtTable}
LimitInputs == {-1, 0, 1, 5, 200, 1000000}
SelectInputs ==
    Padded({<<>>, QSelect1, QSelectMixed, QSelectDrop, QSelectx, QSelec,
            QDrop, QWith, QParen})
WhereInputs == Padded({<<>>, WIdEq1})
UpdateWhereInputs == {<<" ">>, WIdEq1, <<"\t">> \o WIdEq1 \o <<" ">>}
SetInputs == {<<>>, <<"\n", "\t">>, SName, <<" ">> \o SName \o <<"\n">>}
ColumnInputs == {TxtId, TxtName, TxtTeam}
ValueInputs == {ValIndia, ValTest}

\* a column-to-value map is a sequence of <<column, value>> pairs with
\* distinct columns (a Python dict keeps insertion order); the maps tried
\* hold distinct values, so that the order of the values shows
MaxCols == 2

DataInputs ==
    {d \in UNION {[1..n -> ColumnInputs \X ValueInputs] : n \in 0..MaxCols} :
        \A i, j \in 1..Len(d) : i # j => d[i][1] # d[j][1] /\ d[i][2] # d[j][2]}

Keys(data) == [i \in 1..Len(data) |-> data[i][1]]
Values(data) == [i \in 1..Len(data) |-> data[i][2]]

Min(a, b) == IF a < b THEN a ELSE b
Max(a, b) == IF a > b THEN a ELSE b

---------------------------------------------------------------------------
(* The relational engine, as far as the calls observe it.  In one call the *)
(* engine's behaviour is the record eng:                                   *)
(*   connect   whether mysql.connector.connect succeeds                    *)
(*   reject    whether the engine raises on the statement (unknown table,  *)
(*             permission, constraint violation)                           *)
(*   count     the row count it reports: rows affected by a DELETE or      *)
(*             UPDATE, rows returned by a user's SELECT                    *)
(*   script    whether a statement that follows a semicolon is run too     *)
(*   lost      whether the connection breaks after the statement ran, so   *)
(*             that a later step of the call raises                        *)
(* store is the selected table: its number of rows, and how many of them   *)
(* an UPDATE has changed.                                                  *)

EngineDown ==
    [connect |-> FALSE, reject |-> FALSE, count |-> 0, script |-> FALSE,
     lost |-> FALSE]
EngineRejects ==
    [connect |-> TRUE, reject |-> TRUE, count |-> 0, script |-> FALSE,
     lost |-> FALSE]
EngineRuns(count, script) ==
    [connect |-> TRUE, reject |-> FALSE, count |-> count, script |-> script,
     lost |-> FALSE]
\* the engine runs the statement, and the connection breaks before the
\* call has closed its cursor and connection
EngineLoses(count) ==
    [connect |-> TRUE, reject |-> FALSE, count |-> count, script |-> FALSE,
     lost |-> TRUE]

\* the behaviours a call can meet: for SELECT * ... LIMIT the row count follows
\* from the statement, for an INSERT of one row it is 1
FetchEngines == {EngineDown, EngineRejects, EngineRuns(0, FALSE)}
SelectEngines(st) ==
    {EngineDown, EngineRejects}
        \cup {EngineRuns(n, s) : n \in 0..st.rows, s \in BOOLEAN}
InsertEngines ==
    {EngineDown, EngineRejects, EngineRuns(1, FALSE), EngineLoses(1)}
WriteEngines(st) ==
    {EngineDown, EngineRejects} \cup {EngineRuns(n, FALSE) : n \in 0..st.rows}
        \cup {EngineLoses(n) : n \in 1..st.rows}

DigitValue(c) == CHOOSE d \in 0..9 : DigitChars[d + 1] = c

RECURSIVE ParseNat(_)
ParseNat(s) ==
    IF s = <<>> THEN 0
    ELSE 10 * ParseNat(SubSeq(s, 1, Len(s) - 1)) + DigitValue(s[Len(s)])

\* the operand of the LIMIT clause that ends the statement
LimitOperand(sql) ==
    LET body == SubSeq(sql, 1, Len(sql) - 1)
        cut  == CHOOSE i \in 0..Len(body) :
                    /\ i > 0 => body[i] = " "
                    /\ \A j \in (i + 1)..Len(body) : body[j] # " "
    IN SubSeq(body, cut + 1, Len(body))

\* rows the engine returns for SELECT * ... LIMIT n;  -1 when it raises (a
\* negative LIMIT operand is a syntax error)
EngineSelectLimit(sql, st) ==
    LET n == LimitOperand(sql)
    IN IF n = <<>> \/ Head(n) = "-" THEN -1 ELSE Min(ParseNat(n), st.rows)

\* a second statement follows a semicolon
HasSecondStatement(sql) ==
    \E i \in 1..Len(sql) :
        sql[i] = ";" /\ \E j \in (i + 1)..Len(sql) : ~IsSpace(sql[j])

---------------------------------------------------------------------------
(* utils/db_connection.py: what one call does.  A result records the       *)
(* outcome ("ok", "ValueError" for a validation error, "Error" for a       *)
(* connection or engine error), the connections opened and closed, the     *)
(* statements submitted to the engine, the row count the engine reported   *)
(* (cursor.rowcount, or the rows of the frame), the returned values and    *)
(* the store the call leaves.                                              *)

Result(outcome, opened, closed, executed, rowcount, retSql, retCount, st) ==
    [outcome |-> outcome, opened |-> opened, closed |-> closed,
     executed |-> executed, rowcount |-> rowcount, retSql |-> retSql,
     retCount |-> retCount, store |-> st]

\* the steps the call went through, in the order of the code (the last one
\* is the step that raised, when the call raised), and the parts of the
\* text of the exception raised
Traced(r, steps, message) == r @@ [steps |-> steps, message |-> message]

\* mutant: the connection is opened without autocommit
CreateConnectionNoAutocommit == [autocommit |-> FALSE]

\* mysql.connector.connect(..., autocommit=True)
CreateConnection == [autocommit |-> TRUE]

\* what the store holds once a connection that ran one statement has ended:
\* no function calls conn.commit(), so the statement's effect stays only
\* when the connection commits each statement by itself
Committed(conn, st, after) == IF conn.autocommit THEN after ELSE st

\* str(e) of the error a broken connection raises
LostMessage == "2013 (HY000): Lost connection to MySQL server during query"

\* raise ValueError(...)
MsgOnlySelect == "Only SELECT queries are allowed here."
MsgDeleteNoWhere == "Refusing to delete without a WHERE clause."
MsgSetEmpty == "SET clause cannot be empty."
MsgUpdateNoWhere == "Refusing to update without a WHERE clause."

\* str(e) of the mysql.connector.Error the connector raises: the engine's
\* error number and message
ConnectMessage == "2003 (HY000): Can't connect to MySQL server"
RejectMessage == "1146 (42S02): Table doesn't exist"

\* str(e) of the error pd.read_sql raises for a statement the engine rejects
ReadSqlMessage(sql) ==
    <<"Execution failed on sql '", Str(sql), "': ", RejectMessage>>

Statement(sql, params) == [sql |-> sql, params |-> params]

\* mutant: the table name is not quoted
FetchTableSqlUnquoted(table, limit) ==
    SubSeq(FetchHead, 1, Len(FetchHead) - 1) \o table \o Tail(FetchMid)
        \o IntText(limit) \o Semi

\* f"SELECT * FROM `{table}` LIMIT {int(limit)};"
FetchTableSql(table, limit) ==
    FetchHead \o table \o FetchMid \o IntText(limit) \o Semi

FetchTable(table, limit, eng, st) ==
    LET sql  == FetchTableSql(table, limit)
        rows == EngineSelectLimit(sql, st)
    IN IF ~eng.connect
       THEN Traced(Result("Error", 0, 0, <<>>, 0, <<>>, 0, st),
                   <<"connect">>, <<ConnectMessage>>)
       ELSE IF eng.reject \/ rows < 0
       THEN Traced(Result("Error", 1, 0, <<Statement(sql, <<>>)>>, 0, <<>>, 0,
                          st),
                   <<"connect", "build", "execute">>, ReadSqlMessage(sql))
       ELSE Traced(Result("ok", 1, 1, <<Statement(sql, <<>>)>>, rows, sql, rows,
                          st),
                   <<"connect", "build", "execute", "close">>, <<>>)

\* mutant: the prefix test without strip()
RunSelectAcceptsNoStrip(select_sql) ==
    StartsWith(Lower(select_sql), SelectPrefix)

\* select_sql.strip().lower().startswith("select")
RunSelectAccepts(select_sql) ==
    StartsWith(Lower(Strip(select_sql)), SelectPrefix)

\* the text run_select hands to pd.read_sql
RunSelectSubmitted(select_sql) == select_sql

RunSelect(select_sql, eng, st) ==
    LET sent  == RunSelectSubmitted(select_sql)
        after == IF eng.script /\ HasSecondStatement(sent)
                 THEN [rows |-> 0, changed |-> 0] ELSE st
    IN IF ~RunSelectAccepts(select_sql)
       THEN Traced(Result("ValueError", 0, 0, <<>>, 0, <<>>, 0, st),
                   <<"validate">>, <<MsgOnlySelect>>)
       ELSE IF ~eng.connect
       THEN Traced(Result("Error", 0, 0, <<>>, 0, <<>>, 0, st),
                   <<"validate", "connect">>, <<ConnectMessage>>)
       ELSE IF eng.reject
       THEN Traced(Result("Error", 1, 0, <<Statement(sent, <<>>)>>, 0, <<>>, 0,
                          st),
                   <<"validate", "connect", "execute">>, ReadSqlMessage(sent))
       ELSE Traced(Result("ok", 1, 1, <<Statement(sent, <<>>)>>, eng.count,
                          <<>>, eng.count, after),
                   <<"validate", "connect", "execute", "close">>, <<>>)

\* mutant: the values are interpolated into the text
InsertRowSqlInline(table, data) ==
    LET cols == [i \in 1..Len(data) |-> Backtick \o Keys(data)[i] \o Backtick]
    IN InsertHead \o table \o InsertCols \o Join(CommaSpace, cols)
           \o InsertValues \o Join(CommaSpace, Values(data)) \o InsertTail

\* f"INSERT INTO `{table}` ({', '.join(cols)}) VALUES ({placeholders});"
InsertRowSql(table, data) ==
    LET cols == [i \in 1..Len(data) |-> Backtick \o Keys(data)[i] \o Backtick]
        placeholders == Join(CommaSpace, [i \in 1..Len(cols) |-> Placeholder])
    IN InsertHead \o table \o InsertCols \o Join(CommaSpace, cols)
           \o InsertValues \o placeholders \o InsertTail

\* values = list(data.values())
InsertRowParams(data) == Values(data)

\* return affected, sql
InsertRowReturn(affected, sql) == [count |-> affected, sql |-> sql]

InsertRow(table, data, eng, st) ==
    LET sql    == InsertRowSql(table, data)
        values == InsertRowParams(data)
        ret    == InsertRowReturn(eng.count, sql)
        after  == [st EXCEPT !.rows = @ + eng.count]
    IN IF ~eng.connect
       THEN Traced(Result("Error", 0, 0, <<>>, 0, <<>>, 0, st),
                   <<"build", "connect">>, <<ConnectMessage>>)
       ELSE IF eng.reject \/ st.rows >= MaxRows
       THEN Traced(Result("Error", 1, 0, <<Statement(sql, values)>>, 0, <<>>, 0,
                          st),
                   <<"build", "connect", "execute">>, <<RejectMessage>>)
       ELSE IF eng.lost
       THEN Traced(Result("Error", 1, 0, <<Statement(sql, values)>>,
                          eng.count, <<>>, 0,
                          Committed(CreateConnection, st, after)),
                   <<"build", "connect", "execute", "close">>, <<LostMessage>>)
       ELSE Traced(Result("ok", 1, 1, <<Statement(sql, values)>>, eng.count,
                          ret.sql, ret.count,
                          Committed(CreateConnection, st, after)),
                   <<"build", "connect", "execute", "close">>, <<>>)

\* mutant: the guard tests the clause as typed
DeleteRowsValidNoStrip(where_clause) == where_clause # <<>>

\* where = where_clause.strip(); if not where: raise ValueError
DeleteRowsValid(where_clause) == Strip(where_clause) # <<>>

\* f"DELETE FROM `{table}` WHERE {where};"
DeleteRowsSql(table, where_clause) ==
    DeleteHead \o table \o WhereMid \o Strip(where_clause) \o Semi

\* mutant: the text returned is the statement without the clause
DeleteRowsReturnHead(affected, sql) ==
    [count |-> affected, sql |-> SubSeq(sql, 1, Len(DeleteHead))]

\* return affected, sql
DeleteRowsReturn(affected, sql) == [count |-> affected, sql |-> sql]

\* mutant: a statement the engine rejects is submitted a second time
DeleteRowsRetrying(table, where_clause, eng, st) ==
    LET sql == DeleteRowsSql(table, where_clause)
        ret == DeleteRowsReturn(eng.count, sql)
        after == [rows    |-> st.rows - eng.count,
                  changed |-> Min(st.changed, st.rows - eng.count)]
    IN IF ~DeleteRowsValid(where_clause)
       THEN Traced(Result("ValueError", 0, 0, <<>>, 0, <<>>, 0, st),
                   <<"validate">>, <<MsgDeleteNoWhere>>)
       ELSE IF ~eng.connect
       THEN Traced(Result("Error", 0, 0, <<>>, 0, <<>>, 0, st),
                   <<"validate", "build", "connect">>, <<ConnectMessage>>)
       ELSE IF eng.reject
       THEN Traced(Result("Error", 1, 0,
                          <<Statement(sql, <<>>), Statement(sql, <<>>)>>, 0,
                          <<>>, 0, st),
                   <<"validate", "build", "connect", "execute", "execute">>,
                   <<RejectMessage>>)
       ELSE IF eng.lost
       THEN Traced(Result("Error", 1, 0, <<Statement(sql, <<>>)>>, eng.count,
                          <<>>, 0, Committed(CreateConnection, st, after)),
                   <<"validate", "build", "connect", "execute", "close">>,
                   <<LostMessage>>)
       ELSE Traced(Result("ok", 1, 1, <<Statement(sql, <<>>)>>, eng.count,
                          ret.sql, ret.count,
                          Committed(CreateConnection, st, after)),
                   <<"validate", "build", "connect", "execute", "close">>,
                   <<>>)

DeleteRows(table, where_clause, eng, st) ==
    LET sql == DeleteRowsSql(table, where_clause)
        ret == DeleteRowsReturn(eng.count, sql)
        after == [rows    |-> st.rows - eng.count,
                  changed |-> Min(st.changed, st.rows - eng.count)]
    IN IF ~DeleteRowsValid(where_clause)
       THEN Traced(Result("ValueError", 0, 0, <<>>, 0, <<>>, 0, st),
                   <<"validate">>, <<MsgDeleteNoWhere>>)
       ELSE IF ~eng.connect
       THEN Traced(Result("Error", 0, 0, <<>>, 0, <<>>, 0, st),
                   <<"validate", "build", "connect">>, <<ConnectMessage>>)
       ELSE IF eng.reject
       THEN Traced(Result("Error", 1, 0, <<Statement(sql, <<>>)>>, 0, <<>>, 0,
                          st),
                   <<"validate", "build", "connect", "execute">>,
                   <<RejectMessage>>)
       ELSE IF eng.lost
       THEN Traced(Result("Error", 1, 0, <<Statement(sql, <<>>)>>, eng.count,
                          <<>>, 0, Committed(CreateConnection, st, after)),
                   <<"validate", "build", "connect", "execute", "close">>,
                   <<LostMessage>>)
       ELSE Traced(Result("ok", 1, 1, <<Statement(sql, <<>>)>>, eng.count,
                          ret.sql, ret.count,
                          Committed(CreateConnection, st, after)),
                   <<"validate", "build", "connect", "execute", "close">>,
                   <<>>)

\* if not set_part: raise ...; if not where_part: raise ...
ExecuteUpdateValid(set_clause, where_clause) ==
    Strip(set_clause) # <<>> /\ Strip(where_clause) # <<>>

\* mutant: the clauses are inserted as typed
ExecuteUpdateSqlAsTyped(table, set_clause, where_clause) ==
    UpdateHead \o table \o SetMid \o set_clause \o WhereKw \o where_clause
        \o Semi

\* f"UPDATE `{table}` SET {set_part} WHERE {where_part};"
ExecuteUpdateSql(table, set_clause, where_clause) ==
    UpdateHead \o table \o SetMid \o Strip(set_clause) \o WhereKw
        \o Strip(where_clause) \o Semi

\* return affected, sql
ExecuteUpdateReturn(affected, sql) == [count |-> affected, sql |-> sql]

ExecuteUpdate(table, set_clause, where_clause, eng, st) ==
    LET sql == ExecuteUpdateSql(table, set_clause, where_clause)
        ret == ExecuteUpdateReturn(eng.count, sql)
        after == [st EXCEPT !.changed = Max(@, eng.count)]
    IN IF ~ExecuteUpdateValid(set_clause, where_clause)
       THEN Traced(Result("ValueError", 0, 0, <<>>, 0, <<>>, 0, st),
                   <<"validate">>,
                   <<IF Strip(set_clause) = <<>> THEN MsgSetEmpty
                     ELSE MsgUpdateNoWhere>>)
       ELSE IF ~eng.connect
       THEN Traced(Result("Error", 0, 0, <<>>, 0, <<>>, 0, st),
                   <<"validate", "build", "connect">>, <<ConnectMessage>>)
       ELSE IF eng.reject
       THEN Traced(Result("Error", 1, 0, <<Statement(sql, <<>>)>>, 0, <<>>, 0,
                          st),
                   <<"validate", "build", "connect", "execute">>,
                   <<RejectMessage>>)
       ELSE IF eng.lost
       THEN Traced(Result("Error", 1, 0, <<Statement(sql, <<>>)>>, eng.count,
                          <<>>, 0, Committed(CreateConnection, st, after)),
                   <<"validate", "build", "connect", "execute", "close">>,
                   <<LostMessage>>)
       ELSE Traced(Result("ok", 1, 1, <<Statement(sql, <<>>)>>, eng.count,
                          ret.sql, ret.count,
                          Committed(CreateConnection, st, after)),
                   <<"validate", "build", "connect", "execute", "close">>,
                   <<>>)

---------------------------------------------------------------------------
(* Schema discovery.  The engine's catalog: per user database its base     *)
(* tables, each with the rows INFORMATION_SCHEMA.COLUMNS holds for it in   *)
(* ordinal order (COLUMN_NAME, DATA_TYPE, IS_NULLABLE, COLUMN_KEY,         *)
(* COLUMN_DEFAULT, EXTRA), and its views.                                  *)

TxtMatches == <<"m", "a", "t", "c", "h", "e", "s">>
TxtVenue == <<"v", "e", "n", "u", "e">>
ExtraAuto ==
    <<"a", "u", "t", "o", "_", "i", "n", "c", "r", "e", "m", "e", "n", "t">>

IdColumn == <<TxtId, "int", "NO", "PRI", "NULL", ExtraAuto>>

\* the same flag as an engine that reports it in capitals gives it
ExtraAutoUpper == <<"A", "U", "T", "O", "_", "I", "N", "C", "R", "E", "M", "E", "N", "T">>
SerialColumn == <<TxtId, "int", "NO", "PRI", "NULL", ExtraAutoUpper>>
TextColumn(name) == <<name, "varchar", "YES", "", "NULL", <<>>>>

EngineCatalog ==
    [cricbuzz |->
        [tables |-> (TxtPlayers :> <<IdColumn, TextColumn(TxtName),
                                      TextColumn(TxtTeam)>>)
                    @@ (TxtMatches :> <<IdColumn, TextColumn(TxtVenue)>>),
         views  |-> {"top_players"}],
     shop |->
        [tables |-> (TxtTable :> <<SerialColumn, TextColumn(TxtName),
                                    TextColumn(TxtTeam)>>),
         views  |-> {}],
     archive |->
        [tables |-> <<>>,
         views  |-> {"old_players"}],
     information_schema |->
        [tables |-> <<>>,
         views  |-> {}],
     performance_schema |->
        [tables |-> (TxtTable :> <<TextColumn(TxtName)>>),
         views  |-> {}],
     mysql |->
        [tables |-> (TxtTable :> <<TextColumn(TxtName)>>),
         views  |-> {}],
     sys |->
        [tables |-> (TxtTable :> <<TextColumn(TxtName)>>),
         views  |-> {"top_players"}]]

\* the engine's own databases
SystemDbs == {"information_schema", "mysql", "performance_schema", "sys"}

UserDbs == DOMAIN EngineCatalog \ SystemDbs

\* mutant: sys is missing from the set
ExcludedDbsNoSys == {"information_schema", "performance_schema", "mysql"}

\* excluded_dbs
ExcludedDbs == {"information_schema", "performance_schema", "mysql", "sys"}

\* what SHOW DATABASES may list
ReportedInputs ==
    {sys \cup usr : sys \in {{}, SystemDbs}, usr \in SUBSET UserDbs}

\* the statement of the per-database block at which the engine raises
\* mysql.connector.Error, if the block gets that far
FaultInputs == {"none", "connect", "tables", "columns", "views"}

\* tables whose column query returns no rows (dropped after the listing)
DroppedInputs == {{}, {TxtPlayers}}

\* the initial connection: refused, SHOW DATABASES raises, or served
FirstInputs == {"down", "show", "ok"}

\* one ColumnDescriptor from a row c of the column query
ColumnDescriptor(c) ==
    [name |-> c[1], type |-> c[2], nullable |-> c[3], key |-> c[4],
     default |-> c[5], extra |-> c[6]]

\* the rows the column query returns for a table
ColumnRows(db, tbl, dropped) ==
    IF tbl \in dropped THEN <<>> ELSE EngineCatalog[db].tables[tbl]

\* mutant: a table without column rows is left out
DbStructureSkipEmpty(db, dropped) ==
    [tables |->
        [tbl \in {t \in DOMAIN EngineCatalog[db].tables :
                     ColumnRows(db, t, dropped) # <<>>} |->
            LET cols == ColumnRows(db, tbl, dropped)
            IN [i \in 1..Len(cols) |-> ColumnDescriptor(cols[i])]],
     views |-> [v \in EngineCatalog[db].views |-> <<>>],
     functions |-> <<>>,
     procedures |-> <<>>]

\* mutant: a view is stored with the columns the catalog has for it
DbStructureViewColumns(db, dropped) ==
    [tables |->
        [tbl \in DOMAIN EngineCatalog[db].tables |->
            LET cols == ColumnRows(db, tbl, dropped)
            IN [i \in 1..Len(cols) |-> ColumnDescriptor(cols[i])]],
     views |-> [v \in EngineCatalog[db].views |->
                  <<ColumnDescriptor(IdColumn)>>],
     functions |-> <<>>,
     procedures |-> <<>>]

\* db_structure as the block builds it
DbStructure(db, dropped) ==
    [tables |->
        [tbl \in DOMAIN EngineCatalog[db].tables |->
            LET cols == ColumnRows(db, tbl, dropped)
            IN [i \in 1..Len(cols) |-> ColumnDescriptor(cols[i])]],
     views |-> [v \in EngineCatalog[db].views |-> <<>>],
     functions |-> <<>>,
     procedures |-> <<>>]

\* mutant: a database without base tables is stored like any other
DbBlockKeepsEmpty(db, fault) ==
    IF fault = "connect"
    THEN [stored |-> FALSE, opened |-> 0, closed |-> 0]
    ELSE IF fault = "tables"
    THEN [stored |-> FALSE, opened |-> 1, closed |-> 0]
    ELSE IF fault \in {"columns", "views"}
    THEN [stored |-> FALSE, opened |-> 1, closed |-> 0]
    ELSE [stored |-> TRUE, opened |-> 1, closed |-> 1]

\* mutant: the database is stored before its views are listed
DbBlockStoresEarly(db, fault) ==
    IF fault = "connect"
    THEN [stored |-> FALSE, opened |-> 0, closed |-> 0]
    ELSE IF fault = "tables"
    THEN [stored |-> FALSE, opened |-> 1, closed |-> 0]
    ELSE IF DOMAIN EngineCatalog[db].tables = {}
    THEN [stored |-> FALSE, opened |-> 1, closed |-> 0]
    ELSE IF fault = "columns"
    THEN [stored |-> FALSE, opened |-> 1, closed |-> 0]
    ELSE IF fault = "views"
    THEN [stored |-> TRUE, opened |-> 1, closed |-> 0]
    ELSE [stored |-> TRUE, opened |-> 1, closed |-> 1]

\* the per-database block of the loop: whether db is stored in
\* full_schema_info, and the connections the block opens and closes
DbBlock(db, fault) ==
    IF fault = "connect"
    THEN [stored |-> FALSE, opened |-> 0, closed |-> 0]
    ELSE IF fault = "tables"
    THEN [stored |-> FALSE, opened |-> 1, closed |-> 0]
    ELSE IF DOMAIN EngineCatalog[db].tables = {}
    THEN [stored |-> FALSE, opened |-> 1, closed |-> 0]
    ELSE IF fault \in {"columns", "views"}
    THEN [stored |-> FALSE, opened |-> 1, closed |-> 0]
    ELSE [stored |-> TRUE, opened |-> 1, closed |-> 1]

\* if db_name in excluded_dbs: continue
Visited(reported) == reported \ ExcludedDbs

\* the sum of f over the set S
RECURSIVE Sum(_, _)
Sum(S, f) ==
    IF S = {} THEN 0
    ELSE LET x == CHOOSE y \in S : TRUE IN f[x] + Sum(S \ {x}, f)

\* mutant: a refused connection yields an empty descriptor
GetMysqlSchemaEmptyOnDown(first, reported, faults, dropped) ==
    LET visited == Visited(reported)
        Opened == [db \in visited |-> DbBlock(db, faults[db]).opened]
        Closed == [db \in visited |-> DbBlock(db, faults[db]).closed]
        full_schema_info ==
            [db \in {d \in visited : DbBlock(d, faults[d]).stored} |->
                DbStructure(db, dropped)]
    IN IF first = "down"
       THEN [outcome |-> "ok", opened |-> 0, closed |-> 0, schema |-> <<>>]
       ELSE IF first = "show"
       THEN [outcome |-> "Error", opened |-> 1, closed |-> 0, schema |-> <<>>]
       ELSE [outcome |-> "ok", opened |-> 1 + Sum(visited, Opened),
             closed |-> 1 + Sum(visited, Closed), schema |-> full_schema_info]

GetMysqlSchema(first, reported, faults, dropped) ==
    LET visited == Visited(reported)
        Opened == [db \in visited |-> DbBlock(db, faults[db]).opened]
        Closed == [db \in visited |-> DbBlock(db, faults[db]).closed]
        full_schema_info ==
            [db \in {d \in visited : DbBlock(d, faults[d]).stored} |->
                DbStructure(db, dropped)]
    IN IF first = "down"
       THEN [outcome |-> "Error", opened |-> 0, closed |-> 0, schema |-> <<>>]
       ELSE IF first = "show"
       THEN [outcome |-> "Error", opened |-> 1, closed |-> 0, schema |-> <<>>]
       ELSE [outcome |-> "ok", opened |-> 1 + Sum(visited, Opened),
             closed |-> 1 + Sum(visited, Closed), schema |-> full_schema_info]

---------------------------------------------------------------------------
(* pages/sql_queries.py: the templates of the queries dict.  A template is *)
(* its label, the whitespace ("ws") and comments that come before the      *)
(* statement (head) and the words of the statement in order (names,        *)
(* numbers, quoted texts, operators); whitespace between words is left     *)
(* out.  "'<emdash>'" stands for the quoted dash U+2014 of Q25.            *)

\* mutant: the first template deletes the rows it was to list
Query1AsDelete ==
    [label |->
        <<"Q", "1", ".", " ", "P", "l", "a", "y", "e", "r", "s", " ", "f",
          "r", "o", "m", " ", "I", "n", "d", "i", "a", ":", " ", "f", "u",
          "l", "l", " ", "n", "a", "m", "e", ",", " ", "r", "o", "l", "e",
          ",", " ", "b", "a", "t", "t", "i", "n", "g", " ", "&", " ", "b",
          "o", "w", "l", "i", "n", "g", " ", "s", "t", "y", "l", "e", "s">>,
     head |-> <<"ws">>,
     words |-> <<"DELETE", "FROM", "players", "WHERE", "country", "=",
                 "'India'", ";">>]

\* Q1, lines 40-44
Query1 ==
    [label |->
        <<"Q", "1", ".", " ", "P", "l", "a", "y", "e", "r", "s", " ", "f",
          "r", "o", "m", " ", "I", "n", "d", "i", "a", ":", " ", "f", "u",
          "l", "l", " ", "n", "a", "m", "e", ",", " ", "r", "o", "l", "e",
          ",", " ", "b", "a", "t", "t", "i", "n", "g", " ", "&", " ", "b",
          "o", "w", "l", "i", "n", "g", " ", "s", "t", "y", "l", "e", "s">>,
     head |-> <<"ws">>,
     words |->
        <<"SELECT", "name", "AS", "full_name", ",", "playing_role", ",",
          "batting_style", ",", "bowling_style", "FROM", "players", "WHERE",
          "country", "=", "'India'", ";">>]

\* Q2, lines 47-58
Query2 ==
    [label |->
        <<"Q", "2", ".", " ", "M", "a", "t", "c", "h", "e", "s", " ", "i",
          "n", " ", "t", "h", "e", " ", "l", "a", "s", "t", " ", "3", "0",
          " ", "d", "a", "y", "s", " ", "(", "d", "e", "s", "c", ")">>,
     head |-> <<"ws">>,
     words |->
        <<"SELECT", "Description", ",", "\"Team 1\"", "AS", "Team1", ",",
          "\"Team 2\"", "AS", "Team2", ",", "Venue_location", "AS", "Venue",
          ",", "Venue_city", "AS", "City", ",", "date", "(",
          "\"Start Date\"", ")", "AS", "Match_Date", "FROM",
          "cricket_matches_processed", "WHERE", "date", "(",
          "\"Start Date\"", ")", ">=", "date", "(", "'now'", ",",
          "'-30 day'", ")", "ORDER", "BY", "date", "(", "\"Start Date\"",
          ")", "DESC", ";">>]

\* Q3, lines 61-69
Query3 ==
    [label |->
        <<"Q", "3", ".", " ", "T", "o", "p", " ", "1", "0", " ", "O", "D",
          "I", " ", "r", "u", "n", " ", "s", "c", "o", "r", "e", "r", "s",
          " ", "(", "n", "a", "m", "e", ",", " ", "t", "o", "t", "a", "l",
          " ", "r", "u", "n", "s", ",", " ", "a", "v", "g", ",", " ", "1",
          "0", "0", "s", ")">>,
     head |-> <<"ws">>,
     words |->
        <<"SELECT", "\"Player Name\"", ",", "\"Total Runs\"", ",",
          "\"Batting Average\"", ",", "\"Centuries\"", "FROM", "odi_scorers",
          "ORDER", "BY", "\"Total Runs\"", "DESC", "LIMIT", "10", ";">>]

\* Q4, lines 72-80
Query4 ==
    [label |->
        <<"Q", "4", ".", " ", "V", "e", "n", "u", "e", "s", " ", "w", "i",
          "t", "h", " ", "c", "a", "p", "a", "c", "i", "t", "y", " ", ">",
          " ", "5", "0", ",", "0", "0", "0", " ", "(", "l", "a", "r", "g",
          "e", "s", "t", " ", "f", "i", "r", "s", "t", ")">>,
     head |-> <<"ws">>,
     words |->
        <<"SELECT", "venue_name", ",", "city", ",", "country", ",",
          "capacity", "FROM", "venues", "WHERE", "capacity", ">", "50000",
          "ORDER", "BY", "capacity", "DESC", ";">>]

\* Q5, lines 83-91
Query5 ==
    [label |->
        <<"Q", "5", ".", " ", "M", "a", "t", "c", "h", "e", "s", " ", "w",
          "o", "n", " ", "b", "y", " ", "e", "a", "c", "h", " ", "t", "e",
          "a", "m", " ", "(", "m", "o", "s", "t", " ", "w", "i", "n", "s",
          " ", "f", "i", "r", "s", "t", ")">>,
     head |-> <<"ws">>,
     words |->
        <<"SELECT", "TRIM", "(", "SUBSTR", "(", "Status", ",", "1", ",",
          "INSTR", "(", "Status", ",", "' won'", ")", "-", "1", ")", ")",
          "AS", "Team_Name", ",", "COUNT", "(", "*", ")", "AS", "Total_Wins",
          "FROM", "cricket_matches", "WHERE", "Status", "LIKE", "'%won%'",
          "GROUP", "BY", "Team_Name", "ORDER", "BY", "Total_Wins", "DESC",
          ";">>]

\* Q6, lines 94-100
Query6 ==
    [label |->
        <<"Q", "6", ".", " ", "P", "l", "a", "y", "e", "r", " ", "c", "o",
          "u", "n", "t", "s", " ", "b", "y", " ", "p", "l", "a", "y", "i",
          "n", "g", " ", "r", "o", "l", "e">>,
     head |-> <<"ws", "comment", "ws">>,
     words |->
        <<"SELECT", "playing_role", "AS", "role", ",", "COUNT", "(", "*",
          ")", "AS", "player_count", "FROM", "players", "GROUP", "BY",
          "playing_role", "ORDER", "BY", "player_count", "DESC", ";">>]

\* Q7, lines 103-110
Query7 ==
    [label |->
        <<"Q", "7", ".", " ", "H", "i", "g", "h", "e", "s", "t", " ", "i",
          "n", "d", "i", "v", "i", "d", "u", "a", "l", " ", "b", "a", "t",
          "t", "i", "n", "g", " ", "s", "c", "o", "r", "e", " ", "p", "e",
          "r", " ", "f", "o", "r", "m", "a", "t">>,
     head |-> <<"ws", "comment", "ws">>,
     words |->
        <<"SELECT", "format", ",", "MAX", "(", "runs", ")", "AS",
          "highest_score", "FROM", "batting_innings", "WHERE", "format",
          "IN", "(", "'Test'", ",", "'ODI'", ",", "'T20I'", ")", "GROUP",
          "BY", "format", ";">>]

\* Q8, lines 113-119
Query8 ==
    [label |->
        <<"Q", "8", ".", " ", "S", "e", "r", "i", "e", "s", " ", "t", "h",
          "a", "t", " ", "s", "t", "a", "r", "t", "e", "d", " ", "i", "n",
          " ", "2", "0", "2", "4">>,
     head |-> <<"ws", "comment", "ws">>,
     words |->
        <<"SELECT", "series_name", ",", "host_country", ",", "match_type",
          ",", "start_date", ",", "total_matches", "FROM", "series", "WHERE",
          "strftime", "(", "'%Y'", ",", "start_date", ")", "=", "'2024'",
          "ORDER", "BY", "DATE", "(", "start_date", ")", ";">>]

\* Q9, lines 122-136
Query9 ==
    [label |->
        <<"Q", "9", ".", " ", "A", "l", "l", "-", "r", "o", "u", "n", "d",
          "e", "r", "s", " ", "w", "i", "t", "h", " ", ">", "1", "0", "0",
          "0", " ", "r", "u", "n", "s", " ", "A", "N", "D", " ", ">", "5",
          "0", " ", "w", "i", "c", "k", "e", "t", "s", " ", "(", "b", "y",
          " ", "f", "o", "r", "m", "a", "t", ")">>,
     head |-> <<"ws", "comment", "ws">>,
     words |->
        <<"SELECT", "p", ".", "name", "AS", "player_name", ",", "bt", ".",
          "format", ",", "bt", ".", "runs_total", "AS", "total_runs", ",",
          "bw", ".", "wickets_total", "AS", "total_wickets", "FROM",
          "batting_totals", "bt", "JOIN", "bowling_totals", "bw", "ON", "bw",
          ".", "player_id", "=", "bt", ".", "player_id", "AND", "bw", ".",
          "format", "=", "bt", ".", "format", "JOIN", "players", "p", "ON",
          "p", ".", "player_id", "=", "bt", ".", "player_id", "WHERE", "bt",
          ".", "runs_total", ">", "1000", "AND", "bw", ".", "wickets_total",
          ">", "50", "ORDER", "BY", "bt", ".", "format", ",", "bt", ".",
          "runs_total", "DESC", ",", "bw", ".", "wickets_total", "DESC", ";">>]

\* Q10, lines 139-154
Query10 ==
    [label |->
        <<"Q", "1", "0", ".", " ", "L", "a", "s", "t", " ", "2", "0", " ",
          "c", "o", "m", "p", "l", "e", "t", "e", "d", " ", "m", "a", "t",
          "c", "h", "e", "s", " ", "(", "d", "e", "s", "c", ")">>,
     head |-> <<"ws", "comment", "ws">>,
     words |->
        <<"SELECT", "match_title", ",", "team1", ",", "team2", ",",
          "winner_team", ",", "victory_margin", ",", "victory_type", ",",
          "venue_name", ",", "match_date", "FROM", "matches", "WHERE",
          "state", "=", "'Complete'", "ORDER", "BY", "DATE", "(",
          "match_date", ")", "DESC", ",", "match_id", "DESC", "LIMIT", "20",
          ";">>]

\* Q11, lines 157-185
Query11 ==
    [label |->
        <<"Q", "1", "1", ".", " ", "P", "l", "a", "y", "e", "r", "s", " ",
          "w", "i", "t", "h", " ", ">", "=", "2", " ", "f", "o", "r", "m",
          "a", "t", "s", ":", " ", "r", "u", "n", "s", " ", "b", "y", " ",
          "f", "o", "r", "m", "a", "t", " ", "+", " ", "o", "v", "e", "r",
          "a", "l", "l", " ", "b", "a", "t", "t", "i", "n", "g", " ", "a",
          "v", "g">>,
     head |-> <<"ws", "comment", "ws">>,
     words |->
        <<"WITH", "per_format", "AS", "(", "SELECT", "player_id", ",", "SUM",
          "(", "CASE", "WHEN", "format", "=", "'Test'", "THEN", "runs_total",
          "ELSE", "0", "END", ")", "AS", "test_runs", ",", "SUM", "(",
          "CASE", "WHEN", "format", "=", "'ODI'", "THEN", "runs_total",
          "ELSE", "0", "END", ")", "AS", "odi_runs", ",", "SUM", "(", "CASE",
          "WHEN", "format", "=", "'T20I'", "THEN", "runs_total", "ELSE", "0",
          "END", ")", "AS", "t20i_runs", ",", "COUNT", "(", "DISTINCT",
          "format", ")", "AS", "fmt_count", "FROM", "batting_totals",
          "GROUP", "BY", "player_id", ")", ",", "overall", "AS", "(",
          "SELECT", "player_id", ",", "CAST", "(", "SUM", "(", "runs_total",
          ")", "AS", "FLOAT", ")", "/", "NULLIF", "(", "SUM", "(", "outs",
          ")", ",", "0", ")", "AS", "overall_batting_avg", "FROM",
          "batting_totals", "GROUP", "BY", "player_id", ")", "SELECT", "p",
          ".", "name", ",", "pf", ".", "test_runs", ",", "pf", ".",
          "odi_runs", ",", "pf", ".", "t20i_runs", ",", "ROUND", "(", "o",
          ".", "overall_batting_avg", ",", "2", ")", "AS",
          "overall_batting_avg", "FROM", "per_format", "pf", "JOIN",
          "players", "p", "ON", "p", ".", "player_id", "=", "pf", ".",
          "player_id", "LEFT", "JOIN", "overall", "o", "ON", "o", ".",
          "player_id", "=", "pf", ".", "player_id", "WHERE", "pf", ".",
          "fmt_count", ">=", "2", "ORDER", "BY", "overall_batting_avg",
          "DESC", "NULLS", "LAST", ";">>]

\* Q12, lines 188-217
Query12 ==
    [label |->
        <<"Q", "1", "2", ".", " ", "T", "e", "a", "m", " ", "w", "i", "n",
          "s", " ", "a", "t", " ", "h", "o", "m", "e", " ", "v", "s", " ",
          "a", "w", "a", "y">>,
     head |-> <<"ws", "comment", "ws">>,
     words |->
        <<"WITH", "teams_norm", "AS", "(", "SELECT", "team_name", ",",
          "country", "FROM", "teams", ")", ",", "labeled", "AS", "(",
          "SELECT", "m", ".", "*", ",", "CASE", "WHEN", "m", ".",
          "venue_country", "=", "t1", ".", "country", "AND", "(", "m", ".",
          "team1", "=", "t1", ".", "team_name", ")", "THEN", "m", ".",
          "team1", "WHEN", "m", ".", "venue_country", "=", "t2", ".",
          "country", "AND", "(", "m", ".", "team2", "=", "t2", ".",
          "team_name", ")", "THEN", "m", ".", "team2", "ELSE", "NULL", "END",
          "AS", "home_team", "FROM", "matches", "m", "LEFT", "JOIN",
          "teams_norm", "t1", "ON", "t1", ".", "team_name", "=", "m", ".",
          "team1", "LEFT", "JOIN", "teams_norm", "t2", "ON", "t2", ".",
          "team_name", "=", "m", ".", "team2", ")", "SELECT", "team", ",",
          "SUM", "(", "CASE", "WHEN", "team", "=", "home_team", "AND",
          "winner_team", "=", "team", "THEN", "1", "ELSE", "0", "END", ")",
          "AS", "home_wins", ",", "SUM", "(", "CASE", "WHEN", "team", "!=",
          "home_team", "AND", "winner_team", "=", "team", "THEN", "1",
          "ELSE", "0", "END", ")", "AS", "away_wins", "FROM", "(", "SELECT",
          "team1", "AS", "team", ",", "*", "FROM", "labeled", "UNION", "ALL",
          "SELECT", "team2", "AS", "team", ",", "*", "FROM", "labeled", ")",
          "GROUP", "BY", "team", "ORDER", "BY", "(", "home_wins", "+",
          "away_wins", ")", "DESC", ";">>]

\* Q13, lines 220-237
Query13 ==
    [label |->
        <<"Q", "1", "3", ".", " ", "P", "a", "r", "t", "n", "e", "r", "s",
          "h", "i", "p", "s", " ", "(", "a", "d", "j", "a", "c", "e", "n",
          "t", " ", "b", "a", "t", "t", "e", "r", "s", ")", " ", ">", "=",
          " ", "1", "0", "0", " ", "r", "u", "n", "s", " ", "i", "n", " ",
          "a", "n", " ", "i", "n", "n", "i", "n", "g", "s">>,
     head |-> <<"ws", "comment", "ws">>,
     words |->
        <<"SELECT", "p1", ".", "name", "AS", "batter_1", ",", "p2", ".",
          "name", "AS", "batter_2", ",", "bp", ".", "runs", "AS",
          "partnership_runs", ",", "bi1", ".", "innings_id", "FROM",
          "partnerships", "bp", "JOIN", "batting_innings", "bi1", "ON",
          "bi1", ".", "partnership_id", "=", "bp", ".", "partnership_id",
          "JOIN", "batting_innings", "bi2", "ON", "bi2", ".",
          "partnership_id", "=", "bp", ".", "partnership_id", "AND", "ABS",
          "(", "bi1", ".", "batting_position", "-", "bi2", ".",
          "batting_position", ")", "=", "1", "JOIN", "players", "p1", "ON",
          "p1", ".", "player_id", "=", "bi1", ".", "player_id", "JOIN",
          "players", "p2", "ON", "p2", ".", "player_id", "=", "bi2", ".",
          "player_id", "AND", "p2", ".", "player_id", ">", "p1", ".",
          "player_id", "WHERE", "bp", ".", "runs", ">=", "100", "GROUP",
          "BY", "bp", ".", "partnership_id", "ORDER", "BY", "bp", ".",
          "runs", "DESC", ";">>]

\* Q14, lines 240-268
Query14 ==
    [label |->
        <<"Q", "1", "4", ".", " ", "B", "o", "w", "l", "i", "n", "g", " ",
          "a", "t", " ", "v", "e", "n", "u", "e", "s", " ", "(", ">", "=",
          "3", " ", "m", "a", "t", "c", "h", "e", "s", ",", " ", ">", "=",
          "4", " ", "o", "v", "e", "r", "s", " ", "e", "a", "c", "h", " ",
          "m", "a", "t", "c", "h", ")">>,
     head |-> <<"ws", "comment", "ws">>,
     words |->
        <<"WITH", "valid_spells", "AS", "(", "SELECT", "bi", ".", "*", ",",
          "m", ".", "venue_id", "FROM", "bowling_innings", "bi", "JOIN",
          "matches", "m", "ON", "m", ".", "match_id", "=", "bi", ".",
          "match_id", "WHERE", "bi", ".", "overs", ">=", "4", ")", ",",
          "agg", "AS", "(", "SELECT", "player_id", ",", "venue_id", ",",
          "COUNT", "(", "DISTINCT", "match_id", ")", "AS", "matches_played",
          ",", "SUM", "(", "runs_conceded", ")", "*", "1.0", "/", "NULLIF",
          "(", "SUM", "(", "overs", ")", ",", "0", ")", "AS", "economy_rate",
          ",", "SUM", "(", "wickets", ")", "AS", "total_wickets", "FROM",
          "valid_spells", "GROUP", "BY", "player_id", ",", "venue_id",
          "HAVING", "COUNT", "(", "DISTINCT", "match_id", ")", ">=", "3",
          ")", "SELECT", "p", ".", "name", "AS", "bowler", ",", "v", ".",
          "venue_name", ",", "a", ".", "matches_played", ",", "ROUND", "(",
          "a", ".", "economy_rate", ",", "2", ")", "AS", "avg_economy", ",",
          "a", ".", "total_wickets", "FROM", "agg", "a", "JOIN", "players",
          "p", "ON", "p", ".", "player_id", "=", "a", ".", "player_id",
          "JOIN", "venues", "v", "ON", "v", ".", "venue_id", "=", "a", ".",
          "venue_id", "ORDER", "BY", "v", ".", "venue_name", ",",
          "avg_economy", "ASC", ",", "total_wickets", "DESC", ";">>]

\* Q15, lines 271-297
Query15 ==
    [label |->
        <<"Q", "1", "5", ".", " ", "P", "l", "a", "y", "e", "r", "s", " ",
          "i", "n", " ", "c", "l", "o", "s", "e", " ", "m", "a", "t", "c",
          "h", "e", "s", " ", "(", "<", "5", "0", " ", "r", "u", "n", "s",
          " ", "O", "R", " ", "<", "5", " ", "w", "i", "c", "k", "e", "t",
          "s", ")">>,
     head |-> <<"ws", "comment", "ws">>,
     words |->
        <<"WITH", "close_matches", "AS", "(", "SELECT", "match_id", ",",
          "winner_team", "FROM", "matches", "WHERE", "(", "victory_type",
          "=", "'runs'", "AND", "victory_margin", "<", "50", ")", "OR", "(",
          "victory_type", "=", "'wickets'", "AND", "victory_margin", "<",
          "5", ")", ")", ",", "per_player", "AS", "(", "SELECT", "bi", ".",
          "player_id", ",", "bi", ".", "match_id", ",", "bi", ".", "runs",
          ",", "bi", ".", "team", "FROM", "batting_innings", "bi", "JOIN",
          "close_matches", "cm", "ON", "cm", ".", "match_id", "=", "bi", ".",
          "match_id", ")", "SELECT", "p", ".", "name", "AS", "player", ",",
          "ROUND", "(", "AVG", "(", "per", ".", "runs", ")", ",", "2", ")",
          "AS", "avg_runs_close", ",", "COUNT", "(", "*", ")", "AS",
          "close_matches_played", ",", "SUM", "(", "CASE", "WHEN", "cm", ".",
          "winner_team", "=", "per", ".", "team", "THEN", "1", "ELSE", "0",
          "END", ")", "AS", "team_wins_when_batted", "FROM", "per_player",
          "per", "JOIN", "close_matches", "cm", "ON", "cm", ".", "match_id",
          "=", "per", ".", "match_id", "JOIN", "players", "p", "ON", "p",
          ".", "player_id", "=", "per", ".", "player_id", "GROUP", "BY", "p",
          ".", "name", "HAVING", "close_matches_played", ">=", "1", "ORDER",
          "BY", "avg_runs_close", "DESC", ";">>]

\* Q16, lines 300-326
Query16 ==
    [label |->
        <<"Q", "1", "6", ".", " ", "S", "i", "n", "c", "e", " ", "2", "0",
          "2", "0", ":", " ", "y", "e", "a", "r", "l", "y", " ", "a", "v",
          "g", " ", "r", "u", "n", "s", " ", "&", " ", "s", "t", "r", "i",
          "k", "e", " ", "r", "a", "t", "e", " ", "(", ">", "=", "5", " ",
          "m", "a", "t", "c", "h", "e", "s", "/", "y", "e", "a", "r", ")">>,
     head |-> <<"ws", "comment", "ws">>,
     words |->
        <<"WITH", "bi", "AS", "(", "SELECT", "player_id", ",", "strftime",
          "(", "'%Y'", ",", "match_date", ")", "AS", "yr", ",", "match_id",
          ",", "runs", ",", "balls_faced", "FROM", "batting_innings",
          "WHERE", "DATE", "(", "match_date", ")", ">=", "DATE", "(",
          "'2020-01-01'", ")", ")", ",", "per_year", "AS", "(", "SELECT",
          "player_id", ",", "yr", ",", "COUNT", "(", "DISTINCT", "match_id",
          ")", "AS", "matches_played", ",", "AVG", "(", "runs", "*", "1.0",
          ")", "AS", "avg_runs", ",", "AVG", "(", "CASE", "WHEN",
          "balls_faced", ">", "0", "THEN", "(", "runs", "*", "100.0", "/",
          "balls_faced", ")", "ELSE", "NULL", "END", ")", "AS", "avg_sr",
          "FROM", "bi", "GROUP", "BY", "player_id", ",", "yr", "HAVING",
          "COUNT", "(", "DISTINCT", "match_id", ")", ">=", "5", ")",
          "SELECT", "p", ".", "name", ",", "yr", ",", "ROUND", "(",
          "avg_runs", ",", "2", ")", "AS", "avg_runs", ",", "ROUND", "(",
          "avg_sr", ",", "2", ")", "AS", "avg_strike_rate", ",",
          "matches_played", "FROM", "per_year", "JOIN", "players", "p", "ON",
          "p", ".", "player_id", "=", "per_year", ".", "player_id", "ORDER",
          "BY", "p", ".", "name", ",", "yr", ";">>]

\* Q17, lines 329-346
Query17 ==
    [label |->
        <<"Q", "1", "7", ".", " ", "D", "o", "e", "s", " ", "w", "i", "n",
          "n", "i", "n", "g", " ", "t", "h", "e", " ", "t", "o", "s", "s",
          " ", "h", "e", "l", "p", "?", " ", "W", "i", "n", "%", " ", "b",
          "y", " ", "t", "o", "s", "s", " ", "d", "e", "c", "i", "s", "i",
          "o", "n">>,
     head |-> <<"ws", "comment", "ws">>,
     words |->
        <<"WITH", "base", "AS", "(", "SELECT", "toss_decision", ",", "COUNT",
          "(", "*", ")", "AS", "total", ",", "SUM", "(", "CASE", "WHEN",
          "toss_winner", "=", "winner_team", "THEN", "1", "ELSE", "0", "END",
          ")", "AS", "wins_when_toss_winner_wins", "FROM", "matches",
          "WHERE", "toss_winner", "IS", "NOT", "NULL", "AND",
          "toss_decision", "IN", "(", "'bat'", ",", "'bowl'", ")", "GROUP",
          "BY", "toss_decision", ")", "SELECT", "toss_decision", ",",
          "total", ",", "ROUND", "(", "wins_when_toss_winner_wins", "*",
          "100.0", "/", "total", ",", "2", ")", "AS",
          "win_pct_for_toss_winner", "FROM", "base", "ORDER", "BY",
          "toss_decision", ";">>]

\* Q18, lines 349-372
Query18 ==
    [label |->
        <<"Q", "1", "8", ".", " ", "M", "o", "s", "t", " ", "e", "c", "o",
          "n", "o", "m", "i", "c", "a", "l", " ", "b", "o", "w", "l", "e",
          "r", "s", " ", "(", "O", "D", "I", " ", "&", " ", "T", "2", "0",
          ",", " ", "m", "i", "n", " ", "1", "0", " ", "m", "a", "t", "c",
          "h", "e", "s", ",", " ", "a", "v", "g", " ", ">", "=", "2", " ",
          "o", "v", "e", "r", "s", ")">>,
     head |-> <<"ws", "comment", "ws">>,
     words |->
        <<"WITH", "lo", "AS", "(", "SELECT", "player_id", ",", "COUNT", "(",
          "DISTINCT", "match_id", ")", "AS", "matches_bowled", ",", "SUM",
          "(", "overs", ")", "AS", "overs_total", ",", "SUM", "(",
          "runs_conceded", ")", "AS", "runs_total", ",", "SUM", "(",
          "wickets", ")", "AS", "wickets_total", "FROM", "bowling_innings",
          "WHERE", "format", "IN", "(", "'ODI'", ",", "'T20I'", ")", "GROUP",
          "BY", "player_id", ")", "SELECT", "p", ".", "name", "AS", "bowler",
          ",", "ROUND", "(", "runs_total", "*", "1.0", "/", "NULLIF", "(",
          "overs_total", ",", "0", ")", ",", "2", ")", "AS", "economy_rate",
          ",", "wickets_total", ",", "matches_bowled", "FROM", "lo", "JOIN",
          "players", "p", "ON", "p", ".", "player_id", "=", "lo", ".",
          "player_id", "WHERE", "matches_bowled", ">=", "10", "AND", "(",
          "overs_total", "*", "1.0", "/", "matches_bowled", ")", ">=", "2.0",
          "ORDER", "BY", "economy_rate", "ASC", ",", "wickets_total", "DESC",
          ";">>]

\* Q19, lines 375-404
Query19 ==
    [label |->
        <<"Q", "1", "9", ".", " ", "C", "o", "n", "s", "i", "s", "t", "e",
          "n", "c", "y", ":", " ", "a", "v", "g", " ", "r", "u", "n", "s",
          " ", "&", " ", "s", "t", "d", "e", "v", " ", "(", "s", "i", "n",
          "c", "e", " ", "2", "0", "2", "2", ",", " ", ">", "=", "1", "0",
          " ", "b", "a", "l", "l", "s", "/", "i", "n", "n", ")">>,
     head |-> <<"ws", "comment", "ws">>,
     words |->
        <<"WITH", "filt", "AS", "(", "SELECT", "player_id", ",", "runs", "*",
          "1.0", "AS", "runs", "FROM", "batting_innings", "WHERE", "DATE",
          "(", "match_date", ")", ">=", "DATE", "(", "'2022-01-01'", ")",
          "AND", "balls_faced", ">=", "10", ")", ",", "agg", "AS", "(",
          "SELECT", "player_id", ",", "COUNT", "(", "*", ")", "AS", "n", ",",
          "AVG", "(", "runs", ")", "AS", "avg_runs", ",", "AVG", "(", "runs",
          "*", "runs", ")", "AS", "avg_runs_sq", "FROM", "filt", "GROUP",
          "BY", "player_id", ")", "SELECT", "p", ".", "name", ",", "ROUND",
          "(", "agg", ".", "avg_runs", ",", "2", ")", "AS", "avg_runs", ",",
          "ROUND", "(", "CASE", "WHEN", "n", ">", "1", "THEN", "sqrt", "(",
          "agg", ".", "avg_runs_sq", "-", "(", "agg", ".", "avg_runs", "*",
          "agg", ".", "avg_runs", ")", ")", "ELSE", "NULL", "END", ",", "2",
          ")", "AS", "stdev_runs", ",", "n", "AS", "innings_count", "FROM",
          "agg", "JOIN", "players", "p", "ON", "p", ".", "player_id", "=",
          "agg", ".", "player_id", "WHERE", "innings_count", ">=", "1",
          "ORDER", "BY", "stdev_runs", "ASC", "NULLS", "LAST", ",",
          "avg_runs", "DESC", ";">>]

\* Q20, lines 407-437
Query20 ==
    [label |->
        <<"Q", "2", "0", ".", " ", "M", "a", "t", "c", "h", "e", "s", " ",
          "&", " ", "b", "a", "t", "t", "i", "n", "g", " ", "a", "v", "e",
          "r", "a", "g", "e", " ", "b", "y", " ", "f", "o", "r", "m", "a",
          "t", " ", "(", "p", "l", "a", "y", "e", "r", "s", " ", "w", "i",
          "t", "h", " ", ">", "=", "2", "0", " ", "t", "o", "t", "a", "l",
          " ", "m", "a", "t", "c", "h", "e", "s", ")">>,
     head |-> <<"ws", "comment", "ws">>,
     words |->
        <<"WITH", "per_format", "AS", "(", "SELECT", "player_id", ",",
          "format", ",", "matches", ",", "CAST", "(", "runs_total", "AS",
          "FLOAT", ")", "/", "NULLIF", "(", "outs", ",", "0", ")", "AS",
          "batting_avg", "FROM", "batting_totals", ")", ",", "pivot", "AS",
          "(", "SELECT", "player_id", ",", "SUM", "(", "CASE", "WHEN",
          "format", "=", "'Test'", "THEN", "matches", "ELSE", "0", "END",
          ")", "AS", "test_matches", ",", "SUM", "(", "CASE", "WHEN",
          "format", "=", "'ODI'", "THEN", "matches", "ELSE", "0", "END", ")",
          "AS", "odi_matches", ",", "SUM", "(", "CASE", "WHEN", "format",
          "=", "'T20I'", "THEN", "matches", "ELSE", "0", "END", ")", "AS",
          "t20i_matches", ",", "AVG", "(", "CASE", "WHEN", "format", "=",
          "'Test'", "THEN", "batting_avg", "END", ")", "AS", "test_avg", ",",
          "AVG", "(", "CASE", "WHEN", "format", "=", "'ODI'", "THEN",
          "batting_avg", "END", ")", "AS", "odi_avg", ",", "AVG", "(",
          "CASE", "WHEN", "format", "=", "'T20I'", "THEN", "batting_avg",
          "END", ")", "AS", "t20i_avg", ",", "SUM", "(", "matches", ")",
          "AS", "total_matches", "FROM", "per_format", "GROUP", "BY",
          "player_id", ")", "SELECT", "p", ".", "name", ",", "test_matches",
          ",", "ROUND", "(", "test_avg", ",", "2", ")", "AS", "test_avg",
          ",", "odi_matches", ",", "ROUND", "(", "odi_avg", ",", "2", ")",
          "AS", "odi_avg", ",", "t20i_matches", ",", "ROUND", "(",
          "t20i_avg", ",", "2", ")", "AS", "t20i_avg", ",", "total_matches",
          "FROM", "pivot", "JOIN", "players", "p", "ON", "p", ".",
          "player_id", "=", "pivot", ".", "player_id", "WHERE",
          "total_matches", ">=", "20", "ORDER", "BY", "total_matches",
          "DESC", ";">>]

\* Q21, lines 440-462
Query21 ==
    [label |->
        <<"Q", "2", "1", ".", " ", "C", "o", "m", "p", "o", "s", "i", "t",
          "e", " ", "p", "e", "r", "f", "o", "r", "m", "a", "n", "c", "e",
          " ", "s", "c", "o", "r", "e", " ", "&", " ", "r", "a", "n", "k",
          "i", "n", "g", " ", "b", "y", " ", "f", "o", "r", "m", "a", "t">>,
     head |-> <<"ws", "comment", "ws">>,
     words |->
        <<"WITH", "scored", "AS", "(", "SELECT", "player_id", ",", "format",
          ",", "(", "(", "runs_scored", "*", "0.01", ")", "+", "(",
          "batting_average", "*", "0.5", ")", "+", "(", "strike_rate", "*",
          "0.3", ")", ")", "AS", "batting_points", ",", "(", "(",
          "wickets_taken", "*", "2.0", ")", "+", "(", "(", "50", "-",
          "bowling_average", ")", "*", "0.5", ")", "+", "(", "(", "6", "-",
          "economy_rate", ")", "*", "2.0", ")", ")", "AS", "bowling_points",
          ",", "(", "catches", "*", "0.5", "+", "stumpings", "*", "1.0", ")",
          "AS", "fielding_points", "FROM", "player_format_summary", ")", ",",
          "total", "AS", "(", "SELECT", "player_id", ",", "format", ",",
          "batting_points", "+", "bowling_points", "+", "fielding_points",
          "AS", "total_points", "FROM", "scored", ")", "SELECT", "p", ".",
          "name", ",", "format", ",", "ROUND", "(", "total_points", ",", "2",
          ")", "AS", "total_points", "FROM", "total", "JOIN", "players", "p",
          "ON", "p", ".", "player_id", "=", "total", ".", "player_id",
          "ORDER", "BY", "format", ",", "total_points", "DESC", ";">>]

\* Q22, lines 465-502
Query22 ==
    [label |->
        <<"Q", "2", "2", ".", " ", "H", "e", "a", "d", "-", "t", "o", "-",
          "h", "e", "a", "d", " ", "a", "n", "a", "l", "y", "s", "i", "s",
          " ", "(", "l", "a", "s", "t", " ", "3", " ", "y", "e", "a", "r",
          "s", ",", " ", "p", "a", "i", "r", "s", " ", "w", "i", "t", "h",
          " ", ">", "=", "5", " ", "m", "a", "t", "c", "h", "e", "s", ")">>,
     head |-> <<"ws", "comment", "ws">>,
     words |->
        <<"WITH", "recent", "AS", "(", "SELECT", "*", "FROM", "matches",
          "WHERE", "DATE", "(", "match_date", ")", ">=", "DATE", "(",
          "'now'", ",", "'-3 years'", ")", ")", ",", "normalized", "AS", "(",
          "SELECT", "CASE", "WHEN", "team1", "<", "team2", "THEN", "team1",
          "ELSE", "team2", "END", "AS", "team_a", ",", "CASE", "WHEN",
          "team1", "<", "team2", "THEN", "team2", "ELSE", "team1", "END",
          "AS", "team_b", ",", "*", "FROM", "recent", ")", ",", "base", "AS",
          "(", "SELECT", "team_a", ",", "team_b", ",", "COUNT", "(", "*",
          ")", "AS", "total_matches", ",", "SUM", "(", "CASE", "WHEN",
          "winner_team", "=", "team_a", "THEN", "1", "ELSE", "0", "END", ")",
          "AS", "wins_a", ",", "SUM", "(", "CASE", "WHEN", "winner_team",
          "=", "team_b", "THEN", "1", "ELSE", "0", "END", ")", "AS",
          "wins_b", ",", "AVG", "(", "CASE", "WHEN", "winner_team", "=",
          "team_a", "THEN", "victory_margin", "END", ")", "AS",
          "avg_margin_a", ",", "AVG", "(", "CASE", "WHEN", "winner_team",
          "=", "team_b", "THEN", "victory_margin", "END", ")", "AS",
          "avg_margin_b", ",", "SUM", "(", "CASE", "WHEN",
          "batting_first_team", "=", "team_a", "THEN", "1", "ELSE", "0",
          "END", ")", "AS", "a_bat_first_cnt", ",", "SUM", "(", "CASE",
          "WHEN", "batting_first_team", "=", "team_b", "THEN", "1", "ELSE",
          "0", "END", ")", "AS", "b_bat_first_cnt", "FROM", "normalized",
          "GROUP", "BY", "team_a", ",", "team_b", "HAVING", "COUNT", "(",
          "*", ")", ">=", "5", ")", "SELECT", "team_a", ",", "team_b", ",",
          "total_matches", ",", "wins_a", ",", "wins_b", ",", "ROUND", "(",
          "wins_a", "*", "100.0", "/", "total_matches", ",", "2", ")", "AS",
          "win_pct_a", ",", "ROUND", "(", "wins_b", "*", "100.0", "/",
          "total_matches", ",", "2", ")", "AS", "win_pct_b", ",", "ROUND",
          "(", "avg_margin_a", ",", "2", ")", "AS",
          "avg_victory_margin_when_a_wins", ",", "ROUND", "(",
          "avg_margin_b", ",", "2", ")", "AS",
          "avg_victory_margin_when_b_wins", "FROM", "base", "ORDER", "BY",
          "total_matches", "DESC", ",", "ABS", "(", "win_pct_a", "-",
          "win_pct_b", ")", "DESC", ";">>]

\* Q23, lines 505-558
Query23 ==
    [label |->
        <<"Q", "2", "3", ".", " ", "R", "e", "c", "e", "n", "t", " ", "f",
          "o", "r", "m", " ", "(", "l", "a", "s", "t", " ", "1", "0", " ",
          "i", "n", "n", "i", "n", "g", "s", ")", ":", " ", "a", "v", "g",
          "s", ",", " ", "S", "R", " ", "t", "r", "e", "n", "d", ",", " ",
          "5", "0", "+", " ", "c", "o", "u", "n", "t", "s", ",", " ", "c",
          "o", "n", "s", "i", "s", "t", "e", "n", "c", "y">>,
     head |-> <<"ws", "comment", "ws">>,
     words |->
        <<"WITH", "last10", "AS", "(", "SELECT", "player_id", ",",
          "match_date", ",", "runs", ",", "balls_faced", ",", "ROW_NUMBER",
          "(", ")", "OVER", "(", "PARTITION", "BY", "player_id", "ORDER",
          "BY", "DATE", "(", "match_date", ")", "DESC", ")", "AS", "rn",
          "FROM", "batting_innings", ")", ",", "scoped", "AS", "(", "SELECT",
          "*", "FROM", "last10", "WHERE", "rn", "<=", "10", ")", ",",
          "last5", "AS", "(", "SELECT", "player_id", ",", "AVG", "(", "runs",
          "*", "1.0", ")", "AS", "avg_last5", "FROM", "scoped", "WHERE",
          "rn", "<=", "5", "GROUP", "BY", "player_id", ")", ",", "last10agg",
          "AS", "(", "SELECT", "player_id", ",", "AVG", "(", "runs", "*",
          "1.0", ")", "AS", "avg_last10", ",", "AVG", "(", "CASE", "WHEN",
          "balls_faced", ">", "0", "THEN", "(", "runs", "*", "100.0", "/",
          "balls_faced", ")", "END", ")", "AS", "avg_sr_last10", ",", "SUM",
          "(", "CASE", "WHEN", "runs", ">=", "50", "THEN", "1", "ELSE", "0",
          "END", ")", "AS", "fifties_last10", ",", "COUNT", "(", "*", ")",
          "AS", "n", ",", "AVG", "(", "runs", "*", "1.0", ")", "AS",
          "mean_r", ",", "AVG", "(", "(", "runs", "*", "1.0", ")", "*", "(",
          "runs", "*", "1.0", ")", ")", "AS", "mean_r2", "FROM", "scoped",
          "GROUP", "BY", "player_id", ")", ",", "merged", "AS", "(",
          "SELECT", "l10", ".", "player_id", ",", "l5", ".", "avg_last5",
          ",", "l10", ".", "avg_last10", ",", "l10", ".", "avg_sr_last10",
          ",", "l10", ".", "fifties_last10", ",", "l10", ".", "n", ",",
          "sqrt", "(", "l10", ".", "mean_r2", "-", "(", "l10", ".", "mean_r",
          "*", "l10", ".", "mean_r", ")", ")", "AS", "stdev_r", "FROM",
          "last10agg", "l10", "LEFT", "JOIN", "last5", "l5", "ON", "l5", ".",
          "player_id", "=", "l10", ".", "player_id", ")", "SELECT", "p", ".",
          "name", ",", "ROUND", "(", "avg_last5", ",", "2", ")", "AS",
          "avg_last5", ",", "ROUND", "(", "avg_last10", ",", "2", ")", "AS",
          "avg_last10", ",", "ROUND", "(", "avg_sr_last10", ",", "2", ")",
          "AS", "sr_last10", ",", "fifties_last10", ",", "ROUND", "(",
          "stdev_r", ",", "2", ")", "AS", "consistency_stdev", ",", "CASE",
          "WHEN", "avg_last5", ">=", "50", "AND", "stdev_r", "<=", "15",
          "THEN", "'Excellent Form'", "WHEN", "avg_last5", ">=", "35",
          "THEN", "'Good Form'", "WHEN", "avg_last5", ">=", "20", "THEN",
          "'Average Form'", "ELSE", "'Poor Form'", "END", "AS",
          "form_bucket", "FROM", "merged", "JOIN", "players", "p", "ON", "p",
          ".", "player_id", "=", "merged", ".", "player_id", "ORDER", "BY",
          "form_bucket", ",", "avg_last5", "DESC", ";">>]

\* Q24, lines 561-597
Query24 ==
    [label |->
        <<"Q", "2", "4", ".", " ", "B", "e", "s", "t", " ", "b", "a", "t",
          "t", "i", "n", "g", " ", "p", "a", "r", "t", "n", "e", "r", "s",
          "h", "i", "p", "s", " ", "(", "a", "d", "j", "a", "c", "e", "n",
          "t", ",", " ", ">", "=", "5", " ", "p", "a", "r", "t", "n", "e",
          "r", "s", "h", "i", "p", "s", ")">>,
     head |-> <<"ws", "comment", "ws">>,
     words |->
        <<"WITH", "pairs", "AS", "(", "SELECT", "pp1", ".", "player_id",
          "AS", "p1", ",", "pp2", ".", "player_id", "AS", "p2", ",", "pr",
          ".", "runs", "FROM", "partnership_players", "pp1", "JOIN",
          "partnership_players", "pp2", "ON", "pp1", ".", "partnership_id",
          "=", "pp2", ".", "partnership_id", "AND", "ABS", "(", "pp1", ".",
          "batting_position", "-", "pp2", ".", "batting_position", ")", "=",
          "1", "AND", "pp1", ".", "player_id", "<", "pp2", ".", "player_id",
          "JOIN", "partnerships", "pr", "ON", "pr", ".", "partnership_id",
          "=", "pp1", ".", "partnership_id", ")", ",", "stats", "AS", "(",
          "SELECT", "p1", ",", "p2", ",", "COUNT", "(", "*", ")", "AS",
          "partnerships_played", ",", "AVG", "(", "runs", "*", "1.0", ")",
          "AS", "avg_runs", ",", "SUM", "(", "CASE", "WHEN", "runs", ">=",
          "50", "THEN", "1", "ELSE", "0", "END", ")", "AS",
          "partnerships_50_plus", ",", "MAX", "(", "runs", ")", "AS",
          "highest", "FROM", "pairs", "GROUP", "BY", "p1", ",", "p2",
          "HAVING", "COUNT", "(", "*", ")", ">=", "5", ")", "SELECT", "pA",
          ".", "name", "AS", "player_a", ",", "pB", ".", "name", "AS",
          "player_b", ",", "ROUND", "(", "avg_runs", ",", "2", ")", "AS",
          "avg_partnership", ",", "partnerships_50_plus", ",", "highest",
          ",", "ROUND", "(", "partnerships_50_plus", "*", "100.0", "/",
          "partnerships_played", ",", "2", ")", "AS", "success_rate_pct",
          "FROM", "stats", "JOIN", "players", "pA", "ON", "pA", ".",
          "player_id", "=", "stats", ".", "p1", "JOIN", "players", "pB",
          "ON", "pB", ".", "player_id", "=", "stats", ".", "p2", "ORDER",
          "BY", "success_rate_pct", "DESC", ",", "avg_partnership", "DESC",
          ",", "highest", "DESC", ";">>]

\* Q25, lines 600-665
Query25 ==
    [label |->
        <<"Q", "2", "5", ".", " ", "T", "i", "m", "e", "-", "s", "e", "r",
          "i", "e", "s", ":", " ", "q", "u", "a", "r", "t", "e", "r", "l",
          "y", " ", "b", "a", "t", "t", "i", "n", "g", " ", "t", "r", "e",
          "n", "d", " ", "&", " ", "c", "a", "r", "e", "e", "r", " ", "p",
          "h", "a", "s", "e", " ", "(", ">", "=", "6", " ", "q", "u", "a",
          "r", "t", "e", "r", "s", ")">>,
     head |-> <<"ws", "comment", "ws">>,
     words |->
        <<"WITH", "base", "AS", "(", "SELECT", "player_id", ",", "strftime",
          "(", "'%Y'", ",", "match_date", ")", "AS", "y", ",", "(", "(",
          "CAST", "(", "strftime", "(", "'%m'", ",", "match_date", ")", "AS",
          "INT", ")", "-", "1", ")", "/", "3", ")", "+", "1", "AS", "q", ",",
          "match_id", ",", "runs", ",", "balls_faced", "FROM",
          "batting_innings", ")", ",", "per_q", "AS", "(", "SELECT",
          "player_id", ",", "y", "||", "'Q'", "||", "q", "AS", "yrq", ",",
          "COUNT", "(", "DISTINCT", "match_id", ")", "AS", "matches_q", ",",
          "AVG", "(", "runs", "*", "1.0", ")", "AS", "avg_runs_q", ",",
          "AVG", "(", "CASE", "WHEN", "balls_faced", ">", "0", "THEN", "(",
          "runs", "*", "100.0", "/", "balls_faced", ")", "END", ")", "AS",
          "avg_sr_q", "FROM", "base", "GROUP", "BY", "player_id", ",", "yrq",
          "HAVING", "COUNT", "(", "DISTINCT", "match_id", ")", ">=", "3",
          ")", ",", "ranked", "AS", "(", "SELECT", "*", ",", "ROW_NUMBER",
          "(", ")", "OVER", "(", "PARTITION", "BY", "player_id", "ORDER",
          "BY", "yrq", ")", "AS", "rn", "FROM", "per_q", ")", ",", "delta",
          "AS", "(", "SELECT", "p1", ".", "player_id", ",", "p1", ".", "yrq",
          ",", "p1", ".", "avg_runs_q", ",", "p1", ".", "avg_sr_q", ",", "(",
          "p1", ".", "avg_runs_q", "-", "p0", ".", "avg_runs_q", ")", "AS",
          "d_runs", ",", "(", "p1", ".", "avg_sr_q", "-", "p0", ".",
          "avg_sr_q", ")", "AS", "d_sr", "FROM", "ranked", "p1", "LEFT",
          "JOIN", "ranked", "p0", "ON", "p0", ".", "player_id", "=", "p1",
          ".", "player_id", "AND", "p0", ".", "rn", "=", "p1", ".", "rn",
          "-", "1", ")", ",", "coverage", "AS", "(", "SELECT", "player_id",
          ",", "COUNT", "(", "*", ")", "AS", "qtrs", "FROM", "per_q",
          "GROUP", "BY", "player_id", ")", "SELECT", "p", ".", "name", ",",
          "yrq", ",", "ROUND", "(", "avg_runs_q", ",", "2", ")", "AS",
          "avg_runs", ",", "ROUND", "(", "avg_sr_q", ",", "2", ")", "AS",
          "avg_sr", ",", "ROUND", "(", "d_runs", ",", "2", ")", "AS",
          "delta_runs_vs_prev_qtr", ",", "ROUND", "(", "d_sr", ",", "2", ")",
          "AS", "delta_sr_vs_prev_qtr", ",", "CASE", "WHEN", "d_runs", "IS",
          "NULL", "THEN", "'<emdash>'", "WHEN", "d_runs", ">", "0", "AND",
          "d_sr", ">", "0", "THEN", "'Improving'", "WHEN", "d_runs", "<",
          "0", "AND", "d_sr", "<", "0", "THEN", "'Declining'", "ELSE",
          "'Stable'", "END", "AS", "trend_this_qtr", ",", "CASE", "WHEN",
          "c", ".", "qtrs", ">=", "6", "THEN", "CASE", "WHEN", "AVG", "(",
          "CASE", "WHEN", "d_runs", ">", "0", "AND", "d_sr", ">", "0",
          "THEN", "1", "ELSE", "0", "END", ")", "OVER", "(", "PARTITION",
          "BY", "d", ".", "player_id", ")", ">=", "0.6", "THEN",
          "'Career Ascending'", "WHEN", "AVG", "(", "CASE", "WHEN", "d_runs",
          "<", "0", "AND", "d_sr", "<", "0", "THEN", "1", "ELSE", "0", "END",
          ")", "OVER", "(", "PARTITION", "BY", "d", ".", "player_id", ")",
          ">=", "0.6", "THEN", "'Career Declining'", "ELSE",
          "'Career Stable'", "END", "ELSE", "'Insufficient span'", "END",
          "AS", "career_phase_estimate", "FROM", "delta", "d", "JOIN",
          "players", "p", "ON", "p", ".", "player_id", "=", "d", ".",
          "player_id", "JOIN", "coverage", "c", "ON", "c", ".", "player_id",
          "=", "d", ".", "player_id", "ORDER", "BY", "p", ".", "name", ",",
          "yrq", ";">>]

\* queries = { label: sql, ... }: the pairs of the dict display, in the
\* order they are written
queriesLiteral ==
    <<Query1, Query2, Query3, Query4, Query5, Query6, Query7, Query8, Query9,
      Query10, Query11, Query12, Query13, Query14, Query15, Query16, Query17,
      Query18, Query19, Query20, Query21, Query22, Query23, Query24, Query25>>

\* the keys of a dict built from pairs: a key keeps the place of its first
\* occurrence
RECURSIVE DictKeys(_)
DictKeys(pairs) ==
    IF pairs = <<>> THEN <<>>
    ELSE LET init == DictKeys(SubSeq(pairs, 1, Len(pairs) - 1))
             key  == pairs[Len(pairs)].label
         IN IF \E i \in 1..Len(init) : init[i] = key THEN init
            ELSE Append(init, key)

\* the value of a key of a dict built from pairs: the last one written
DictGet(pairs, key) ==
    pairs[CHOOSE i \in 1..Len(pairs) :
             /\ pairs[i].label = key
             /\ \A j \in (i + 1)..Len(pairs) : pairs[j].label # key]

\* list(queries.keys()), the options of the select box
Options == DictKeys(queriesLiteral)

\* mutant: the template of the option that follows the chosen one
QueryOfShifted(position) ==
    DictGet(queriesLiteral, Options[(position % Len(Options)) + 1])

\* query = queries[choice], for the option at a position of the select box
QueryOf(position) == DictGet(queriesLiteral, Options[position])

\* whether a statement reads the date it is executed on: date('now', ...)
UsesNow(words) == \E i \in 1..Len(words) : words[i] = "'now'"

\* the date a statement reads when it executes on a day; NoDay when it reads
\* none
NoDay == 0 - 1

\* mutant: every statement reads the date it is executed on
ClockReadAlways(words, day) == day

ClockRead(words, day) == IF UsesNow(words) THEN day ELSE NoDay

---------------------------------------------------------------------------
(* The catalog's SQLite file, as far as the templates read it.  A date is  *)
(* a day number (a year has 365 days).                                     *)
(*   processed     the start days of the rows of cricket_matches_processed *)
(*   matches       the match days of the rows of matches (one team pair)   *)
(*   innings       the runs of one player's batting_innings rows that Q19  *)
(*                 counts, on distinct days, the most recent first         *)
(*   toss          the number of rows of matches whose toss winner is      *)
(*                 known, for the toss decisions bat and bowl              *)
(*   spells        the match_id of one bowler's ODI and T20I rows of       *)
(*                 bowling_innings, of 4 overs each; NullId stands for NULL *)
(*   partnerships  the number of partnerships of one adjacent pair         *)
(*   tables        whether the file has the tables the templates name      *)

NullId == 0

SpellIds(n) == [i \in 1..n |-> i]

Lake(processed, matches, innings, toss, spells, partnerships) ==
    [processed |-> processed, matches |-> matches, innings |-> innings,
     toss |-> toss, spells |-> spells, partnerships |-> partnerships,
     tables |-> TRUE]

\* the file sqlite3.connect creates when there is none: it has no table
NoLake == [Lake({}, {}, <<>>, <<0, 0>>, <<>>, 0) EXCEPT !.tables = FALSE]

LakeInputs ==
    {NoLake,
     Lake({15, 35}, {20, 21, 22, 23, 24}, <<10, 20, 30>>, <<2, 0>>,
          SpellIds(10), 5),
     Lake({35}, {20, 21, 22, 23}, <<10>>, <<1, 3>>,
          <<NullId, NullId>>, 4),
     Lake({15}, {20, 21, 22, 23, 24, 1100}, <<25, 25, 25>>, <<0, 1>>,
          SpellIds(9) \o <<NullId>>, 6)}

\* the days on which statements are executed
DayInputs == <<40, 1120>>

\* the day the program is started on
FirstDay == DayInputs[1]

\* SUM over a sequence of numbers
RECURSIVE SeqSum(_)
SeqSum(q) == IF q = <<>> THEN 0 ELSE Head(q) + SeqSum(Tail(q))

\* MAX over a sequence of numbers that are not negative
RECURSIVE SeqMax(_)
SeqMax(q) == IF q = <<>> THEN 0 ELSE Max(Head(q), SeqMax(Tail(q)))

\* an SQL value: <<>> is NULL, <<v>> the number v
Null == <<>>
Num(v) == <<v>>

\* ROUND(sqrt(mean_sq - mean * mean), 2) over the runs q, in hundredths:
\* mean_sq - mean * mean is (n * sum of squares - square of the sum) / n^2
RoundedStdev(q) ==
    LET n      == Len(q)
        spread == n * SeqSum([i \in 1..n |-> q[i] * q[i]])
                     - SeqSum(q) * SeqSum(q)
    IN CHOOSE k \in 0..(100 * SeqMax(q)) :
          /\ k > 0 => (2 * k - 1) * (2 * k - 1) * n * n <= 40000 * spread
          /\ 40000 * spread < (2 * k + 1) * (2 * k + 1) * n * n

\* a row of a result, as far as the model reads it: the template it is a
\* row of, the number that identifies it among the rows of the result, and
\* one SQL value of it; data is the file it was computed from when the
\* model does not evaluate the template
Row(template, key, value) ==
    [template |-> template, key |-> key, value |-> value, data |-> NoLake]

\* Q2: WHERE date("Start Date") >= date('now', '-30 day'); one row for
\* each start day
Query2Rows(lk, asOf) ==
    {Row(2, d, Null) : d \in {e \in lk.processed : e >= asOf - 30}}

\* Q17: GROUP BY toss_decision, with total = COUNT(*); a row has the toss
\* decision as key and total as value
Query17Rows(lk) ==
    {Row(17, d, Num(lk.toss[d])) : d \in {g \in 1..2 : lk.toss[g] > 0}}

\* Q18: matches_bowled = COUNT(DISTINCT match_id), overs_total = SUM(overs)
Query18MatchesBowled(lk) ==
    Cardinality({lk.spells[i] : i \in 1..Len(lk.spells)} \ {NullId})

\* mutant: the ratio is computed before matches_bowled is tested
Query18DivisorsUnfiltered(lk) ==
    IF lk.spells = <<>> THEN {} ELSE {Query18MatchesBowled(lk)}

\* Q18: the values of matches_bowled that overs_total is divided by:
\* WHERE matches_bowled >= 10 AND (overs_total * 1.0 / matches_bowled) >= 2.0
\* tests its first term first
Query18Divisors(lk) ==
    IF lk.spells = <<>> \/ Query18MatchesBowled(lk) < 10 THEN {}
    ELSE {Query18MatchesBowled(lk)}

\* Q18: the row of the bowler, with matches_bowled as value
Query18Rows(lk) ==
    {Row(18, 1, Num(m)) :
        m \in {d \in Query18Divisors(lk) : 4 * Len(lk.spells) >= 2 * d}}

\* Q19: CASE WHEN n > 1 THEN sqrt(avg_runs_sq - avg_runs * avg_runs)
\*      ELSE NULL END, one row for a player with counted innings, with
\*      innings_count as key and stdev_runs as value
Query19Rows(lk) ==
    IF lk.innings = <<>> THEN {}
    ELSE {Row(19, Len(lk.innings),
              IF Len(lk.innings) > 1
              THEN Num(RoundedStdev(lk.innings)) ELSE Null)}

\* Q22: WHERE DATE(match_date) >= DATE('now', '-3 years'), then
\* HAVING COUNT(*) >= 5 with total_matches = COUNT(*)
Query22Rows(lk, asOf) ==
    LET recent == {d \in lk.matches : d >= asOf - 3 * 365}
    IN IF Cardinality(recent) >= 5
       THEN {Row(22, 1, Num(Cardinality(recent)))} ELSE {}

\* Q23: the rows with rn <= 10, and sqrt(mean_r2 - mean_r * mean_r) of them;
\* the row of the player has n as key and consistency_stdev as value
Query23Rows(lk) ==
    LET scoped == SubSeq(lk.innings, 1, Min(10, Len(lk.innings)))
    IN IF scoped = <<>> THEN {}
       ELSE {Row(23, Len(scoped), Num(RoundedStdev(scoped)))}

\* Q24: HAVING COUNT(*) >= 5 with partnerships_played = COUNT(*)
Query24Rows(lk) ==
    IF lk.partnerships >= 5
    THEN {Row(24, 1, Num(lk.partnerships))} ELSE {}

\* the rows the engine returns for the template at a position: those of the
\* templates above, and for any other template one set of rows per state
\* of the data and date read
EngineRows(position, lk, day) ==
    LET asOf == ClockRead(QueryOf(position).words, day)
    IN CASE position = 2 -> Query2Rows(lk, asOf)
         [] position = 17 -> Query17Rows(lk)
         [] position = 18 -> Query18Rows(lk)
         [] position = 19 -> Query19Rows(lk)
         [] position = 22 -> Query22Rows(lk, asOf)
         [] position = 23 -> Query23Rows(lk)
         [] position = 24 -> Query24Rows(lk)
         [] OTHER -> {[Row(position, asOf, Null) EXCEPT !.data = lk]}

\* the values the unguarded divisions of a template divide by
EngineDivisors(position, lk, day) ==
    LET asOf == ClockRead(QueryOf(position).words, day)
    IN CASE position = 17 -> {r.value[1] : r \in Query17Rows(lk)}
         [] position = 18 -> Query18Divisors(lk)
         [] position = 22 -> {r.value[1] : r \in Query22Rows(lk, asOf)}
         [] position = 24 -> {r.value[1] : r \in Query24Rows(lk)}
         [] OTHER -> {}

\* the words of a statement as one text
RECURSIVE SqlText(_)
SqlText(words) ==
    IF words = <<>> THEN ""
    ELSE IF Len(words) = 1 THEN words[1]
    ELSE LET half == Len(words) \div 2
         IN SqlText(SubSeq(words, 1, half)) \o " "
               \o SqlText(SubSeq(words, half + 1, Len(words)))

\* the text of each template of the dict
TemplateTexts ==
    [i \in 1..Len(queriesLiteral) |-> SqlText(queriesLiteral[i].words)]

\* the text of a statement
QueryText(query) ==
    IF \E i \in 1..Len(queriesLiteral) : queriesLiteral[i] = query
    THEN TemplateTexts[CHOOSE i \in 1..Len(queriesLiteral) :
                          queriesLiteral[i] = query]
    ELSE SqlText(query.words)

\* str(e) of the sqlite3 error for a table the file does not have
SqliteMessage == "no such table: players"

\* run_query: sqlite3.connect, pd.read_sql, conn.close() and return df
RunQuery(query, rows, mismatch) ==
    IF mismatch
    THEN [outcome |-> "Error", opened |-> 1, closed |-> 0,
          executed |-> <<Statement(query, <<>>)>>, rows |-> {},
          steps |-> <<"connect", "execute">>,
          message |-> <<"Execution failed on sql '", QueryText(query),
                        "': ", SqliteMessage>>]
    ELSE [outcome |-> "ok", opened |-> 1, closed |-> 1,
          executed |-> <<Statement(query, <<>>)>>, rows |-> rows,
          steps |-> <<"connect", "execute", "close">>, message |-> <<>>]

---------------------------------------------------------------------------
(* State.                                                                  *)

NoCall ==
    [op |-> "none", caller |-> "none", args |-> <<>>, eng |-> EngineDown,
     before |-> 0,
     outcome |-> "none", opened |-> 0, closed |-> 0, executed |-> <<>>,
     rowcount |-> 0, retSql |-> <<>>, retCount |-> 0, schema |-> <<>>,
     steps |-> <<>>, message |-> <<>>]

\* cols_meta and crashed belong to the CRUD page;
\* invoked: the library functions the run called, in order; shown: what
\* st.code, st.success and st.error displayed, as the parts of each text
NoPage ==
    [database |-> "", table |-> <<>>, cols_meta |-> <<>>, crashed |-> FALSE,
     invoked |-> <<>>, shown |-> <<>>]

Init ==
    /\ call = NoCall
    /\ openConns = 0
    /\ store \in {[rows |-> n, changed |-> 0] : n \in 0..MaxRows}
    /\ session = [stored |-> FALSE, schema |-> <<>>]
    /\ page = NoPage
    /\ lake = NoLake
    /\ today = FirstDay
    /\ modules = {}

\* the call's record, and its effect on the connections and on the store
Finish(op, args, eng, r) ==
    /\ call' = [op |-> op, caller |-> "direct", args |-> args, eng |-> eng,
                before |-> openConns, outcome |-> r.outcome, opened |-> r.opened,
                closed |-> r.closed, executed |-> r.executed,
                rowcount |-> r.rowcount, retSql |-> r.retSql,
                retCount |-> r.retCount, schema |-> <<>>,
                steps |-> r.steps, message |-> r.message]
    /\ openConns' = openConns + r.opened - r.closed
    /\ store' = r.store

\* a run of the program is bounded by the connections it may leak
CanCall == openConns <= MaxLeaked

---------------------------------------------------------------------------
(* Library calls.                                                          *)

CallFetchTable ==
    /\ CanCall
    /\ \E table \in TableInputs, limit \in LimitInputs, eng \in FetchEngines :
          Finish("fetch_table", [table |-> table, limit |-> limit], eng,
                 FetchTable(table, limit, eng, store))
    /\ UNCHANGED <<session, page, lake, today, modules>>

CallRunSelect ==
    /\ CanCall
    /\ \E sql \in SelectInputs, eng \in SelectEngines(store) :
          Finish("run_select", [sql |-> sql], eng, RunSelect(sql, eng, store))
    /\ UNCHANGED <<session, page, lake, today, modules>>

CallInsertRow ==
    /\ CanCall
    /\ \E table \in TableInputs, data \in DataInputs, eng \in InsertEngines :
          Finish("insert_row", [table |-> table, data |-> data], eng,
                 InsertRow(table, data, eng, store))
    /\ UNCHANGED <<session, page, lake, today, modules>>

CallDeleteRows ==
    /\ CanCall
    /\ \E table \in TableInputs, where \in WhereInputs,
          eng \in WriteEngines(store) :
          Finish("delete_rows", [table |-> table, where |-> where], eng,
                 DeleteRows(table, where, eng, store))
    /\ UNCHANGED <<session, page, lake, today, modules>>

CallExecuteUpdate ==
    /\ CanCall
    /\ \E table \in TableInputs, set \in SetInputs,
          where \in UpdateWhereInputs, eng \in WriteEngines(store) :
          Finish("execute_update",
                 [table |-> table, set |-> set, where |-> where], eng,
                 ExecuteUpdate(table, set, where, eng, store))
    /\ UNCHANGED <<session, page, lake, today, modules>>

\* the record of a discovery call, and its effect on the connections
FinishSchema(first, reported, faults, dropped) ==
    \E r \in {GetMysqlSchema(first, reported, faults, dropped)} :
       /\ call' = [op |-> "get_mysql_schema", caller |-> "direct",
                   args |-> [first |-> first, reported |-> reported,
                             faults |-> faults, dropped |-> dropped],
                   eng |-> EngineDown, before |-> openConns,
                   outcome |-> r.outcome, opened |-> r.opened,
                   closed |-> r.closed, executed |-> <<>>,
                   rowcount |-> 0, retSql |-> <<>>, retCount |-> 0,
                   schema |-> r.schema, steps |-> <<>>, message |-> <<>>]
       /\ openConns' = openConns + r.opened - r.closed

CallGetMysqlSchema ==
    /\ CanCall
    /\ \/ \E first \in FirstInputs \ {"ok"} : FinishSchema(first, {}, <<>>, {})
       \/ \E reported \in ReportedInputs :
            \E faults \in [Visited(reported) -> FaultInputs],
               dropped \in DroppedInputs :
               /\ dropped \subseteq
                     UNION {DOMAIN EngineCatalog[db].tables : db \in Visited(reported)}
               /\ FinishSchema("ok", reported, faults, dropped)
    /\ UNCHANGED <<store, session, page, lake, today, modules>>

\* discovery
NextSchema == CallGetMysqlSchema

\* discovery does not read the selected table
InitSchema == Init /\ store.rows = 0

SpecSchema == InitSchema /\ [][NextSchema]_vars

---------------------------------------------------------------------------
(* pages/crud_operations.py: one run of the page's script.                 *)

\* st.number_input("Rows to load", min_value=1, max_value=10000, value=200)
PageMinLimit == 1
PageMaxLimit == 10000
PageDefaultLimit == 200

\* mutant: the number input has no lower limit
PageLimitInputsNoMin == {0, 5, PageDefaultLimit, PageMaxLimit}

\* the values the number input can hold
PageLimitInputs == {PageMinLimit, 5, PageDefaultLimit, PageMaxLimit}

\* mutant: the test is "if schema is not None:"
TruthyWhenStored(s) == s.stored

\* the truth value of what st.session_state.get("schema", None) gives: None
\* and the empty dict are false
Truthy(s) == s.stored /\ DOMAIN s.schema # {}

\* if schema:
SchemaTruthy == Truthy(session)

\* what the engine does during the discovery that get_table_columns runs
TailInputs ==
    {[first |-> f, reported |-> {}, faults |-> <<>>, dropped |-> {}] :
        f \in FirstInputs \ {"ok"}}
    \cup {[first |-> "ok", reported |-> SystemDbs \cup UserDbs,
           faults |-> [db \in UserDbs |-> "none"], dropped |-> d] :
            d \in DroppedInputs}

\* schema.get(database, {}).get("tables", {}).get(table, [])
GetTableColumns(t, database, table) ==
    LET r == GetMysqlSchema(t.first, t.reported, t.faults, t.dropped)
        found == /\ r.outcome = "ok"
                 /\ database \in DOMAIN r.schema
                 /\ table \in DOMAIN r.schema[database].tables
    IN [outcome |-> r.outcome, opened |-> r.opened, closed |-> r.closed,
        cols |-> IF found THEN r.schema[database].tables[table] ELSE <<>>]

\* the schemas a discovery of the whole catalog stores in the session
StoredSchemas ==
    {GetMysqlSchema("ok", SystemDbs \cup usr, [db \in usr |-> "none"], d).schema :
        usr \in SUBSET UserDbs, d \in DroppedInputs}

\* one element the page displays
Shown(kind, parts) == [kind |-> kind, parts |-> parts]

\* the run in which "Load Data" is pressed: the table and the limit come
\* from the widgets, fetch_table runs inside try/except, and the script
\* goes on to get_table_columns for the Add Row form
PageLoadData ==
    /\ CanCall
    /\ SchemaTruthy
    /\ \E database \in DOMAIN session.schema :
         \E table \in DOMAIN session.schema[database].tables,
            limit \in PageLimitInputs, eng \in FetchEngines, t \in TailInputs :
            \E r \in {FetchTable(table, limit, eng, store)},
               c \in {GetTableColumns(t, database, table)} :
               /\ call' = [op |-> "fetch_table", caller |-> "page",
                           args |-> [table |-> table, limit |-> limit],
                           eng |-> eng, before |-> openConns,
                           outcome |-> r.outcome, opened |-> r.opened,
                           closed |-> r.closed, executed |-> r.executed,
                           rowcount |-> r.rowcount, retSql |-> r.retSql,
                           retCount |-> r.retCount, schema |-> <<>>,
                           steps |-> r.steps, message |-> r.message]
               /\ openConns' = openConns + (r.opened - r.closed)
                                  + (c.opened - c.closed)
               /\ store' = r.store
               /\ page' = [database |-> database, table |-> table,
                           cols_meta |-> c.cols, crashed |-> c.outcome # "ok",
                           invoked |-> <<"fetch_table", "get_table_columns">>,
                           shown |->
                               IF r.outcome = "ok"
                               THEN <<Shown("code", <<Str(r.retSql)>>)>>
                               ELSE <<Shown("error",
                                            <<"Read failed: ">> \o r.message)>>]
    /\ UNCHANGED <<session, lake, today, modules>>

\* what the user types into a text input of the Add Row form
FormValueInputs == {<<>>, <<" ">>, ValIndia}

\* mutant: the flag is looked for in the letter case the engine gave
IsAutoIncrementAsGiven(col) == Contains(col.extra, ExtraAuto)

\* extra = (col["extra"] or "").lower(); "auto_increment" in extra
IsAutoIncrement(col) == Contains(Lower(col.extra), ExtraAuto)

\* the columns of the Add Row form that take an input
FormColumns(cols_meta) ==
    SelectSeq(cols_meta, LAMBDA col : ~IsAutoIncrement(col))

\* inputs[name] = None if val.strip() == "" else val, and then
\* clean = {k: v for k, v in inputs.items() if v is not None}
RECURSIVE Clean(_, _)
Clean(columns, typed) ==
    IF columns = <<>> THEN <<>>
    ELSE (IF Strip(Head(typed)) = <<>> THEN <<>>
          ELSE <<<<Head(columns).name, Head(typed)>>>>)
         \o Clean(Tail(columns), Tail(typed))

\* the record of the library call a form makes
PageCall(op, args, eng, r) ==
    [op |-> op, caller |-> "page", args |-> args, eng |-> eng,
     before |-> openConns, outcome |-> r.outcome, opened |-> r.opened,
     closed |-> r.closed, executed |-> r.executed, rowcount |-> r.rowcount,
     retSql |-> r.retSql, retCount |-> r.retCount, schema |-> <<>>,
     steps |-> r.steps, message |-> r.message]

\* the run stops at line 91: get_table_columns raised outside any try
PageCrash(database, table, c) ==
    /\ call' = [NoCall EXCEPT !.op = "get_table_columns", !.caller = "page",
                              !.args = [database |-> database, table |-> table],
                              !.before = openConns, !.outcome = c.outcome,
                              !.opened = c.opened, !.closed = c.closed,
                              !.message = <<ConnectMessage>>]
    /\ openConns' = openConns + (c.opened - c.closed)
    /\ store' = store
    /\ page' = [database |-> database, table |-> table, cols_meta |-> <<>>,
                crashed |-> TRUE, invoked |-> <<"get_table_columns">>,
                shown |-> <<>>]

\* a form's try block: st.code(sql) and st.success(...) after the call
\* returned, st.error(f"... failed: {e}") when it raised
PageForm(database, table, c, op, args, eng, r, done, failed) ==
    /\ call' = PageCall(op, args, eng, r)
    /\ openConns' = openConns + (c.opened - c.closed) + (r.opened - r.closed)
    /\ store' = r.store
    /\ page' = [database |-> database, table |-> table, cols_meta |-> c.cols,
                crashed |-> FALSE, invoked |-> <<"get_table_columns", op>>,
                shown |->
                    IF r.outcome = "ok"
                    THEN <<Shown("code", <<Str(r.retSql)>>),
                           Shown("success",
                                 <<done, Str(IntText(r.retCount)), " row(s).">>)>>
                    ELSE <<Shown("error", <<failed>> \o r.message)>>]

\* the run in which the Add Row form is submitted
PageInsertRow ==
    /\ CanCall
    /\ SchemaTruthy
    /\ \E database \in DOMAIN session.schema :
         \E table \in DOMAIN session.schema[database].tables,
            eng \in InsertEngines, t \in TailInputs :
            \E c \in {GetTableColumns(t, database, table)} :
               IF c.outcome # "ok"
               THEN PageCrash(database, table, c)
               ELSE /\ c.cols # <<>>
                    /\ \E typed \in [1..Len(FormColumns(c.cols)) ->
                                       FormValueInputs] :
                          \E clean \in {Clean(FormColumns(c.cols), typed)} :
                             PageForm(database, table, c, "insert_row",
                                      [table |-> table, data |-> clean], eng,
                                      InsertRow(table, clean, eng, store),
                                      "Inserted ", "Insert failed: ")
    /\ UNCHANGED <<session, lake, today, modules>>

\* the run in which the delete form is submitted
PageDeleteRows ==
    /\ CanCall
    /\ SchemaTruthy
    /\ \E database \in DOMAIN session.schema :
         \E table \in DOMAIN session.schema[database].tables,
            where \in WhereInputs, eng \in WriteEngines(store),
            t \in TailInputs :
            \E c \in {GetTableColumns(t, database, table)} :
               IF c.outcome # "ok"
               THEN PageCrash(database, table, c)
               ELSE PageForm(database, table, c, "delete_rows",
                             [table |-> table, where |-> where], eng,
                             DeleteRows(table, where, eng, store),
                             "Deleted ", "Delete failed: ")
    /\ UNCHANGED <<session, lake, today, modules>>

\* the run in which the update form is submitted
PageExecuteUpdate ==
    /\ CanCall
    /\ SchemaTruthy
    /\ \E database \in DOMAIN session.schema :
         \E table \in DOMAIN session.schema[database].tables,
            set \in SetInputs, where \in UpdateWhereInputs,
            eng \in WriteEngines(store), t \in TailInputs :
            \E c \in {GetTableColumns(t, database, table)} :
               IF c.outcome # "ok"
               THEN PageCrash(database, table, c)
               ELSE PageForm(database, table, c, "execute_update",
                             [table |-> table, set |-> set, where |-> where],
                             eng, ExecuteUpdate(table, set, where, eng, store),
                             "Updated ", "Update failed: ")
    /\ UNCHANGED <<session, lake, today, modules>>

\* the schemas a discovery stores when every user database is listed and
\* no statement fails
FullSchemas ==
    {GetMysqlSchema("ok", SystemDbs \cup UserDbs, [db \in UserDbs |-> "none"],
                    d).schema : d \in DroppedInputs}

\* the three forms of the page
NextForms ==
    \/ PageInsertRow
    \/ PageDeleteRows
    \/ PageExecuteUpdate

\* the forms are shown once a discovery has stored a schema
InitForms ==
    /\ call = NoCall
    /\ openConns = 0
    /\ store \in {[rows |-> n, changed |-> 0] : n \in {0, MaxRows}}
    /\ session \in {[stored |-> TRUE, schema |-> sc] : sc \in FullSchemas}
    /\ page = NoPage
    /\ lake = NoLake
    /\ today = FirstDay
    /\ modules = {}

SpecForms == InitForms /\ [][NextForms]_vars

\* str(e) of the error SHOW DATABASES raises
DeniedMessage == "1227 (42000): Access denied"

\* what the engine does during the discovery the Connect button starts
ConnectInputs ==
    TailInputs
    \cup UNION {{[first |-> "ok", reported |-> SystemDbs \cup usr,
                  faults |-> f, dropped |-> d] :
                    f \in [usr -> {"none", "connect"}],
                    d \in {e \in DroppedInputs :
                             e \subseteq UNION {DOMAIN EngineCatalog[db].tables :
                                                  db \in usr}}} :
                 usr \in SUBSET (UserDbs \ {"archive"})}

\* mutant: a failed discovery clears the schema of the session
SessionAfterConnectCleared(r) ==
    IF r.outcome = "ok" THEN [stored |-> TRUE, schema |-> r.schema]
    ELSE [stored |-> FALSE, schema |-> <<>>]

\* st.session_state["schema"] = schema is the statement after the call in
\* the try block: it runs only when get_mysql_schema returned
SessionAfterConnect(r) ==
    IF r.outcome = "ok" THEN [stored |-> TRUE, schema |-> r.schema]
    ELSE session

\* the run in which "Connect & Discover Databases" is pressed: the try
\* block of lines 30-35, then schema = st.session_state.get("schema") and,
\* if it is truthy, the rest of the script up to get_table_columns
PageConnect ==
    /\ CanCall
    /\ \E n \in ConnectInputs :
         \E r \in {GetMysqlSchema(n.first, n.reported, n.faults, n.dropped)} :
            \E after \in {SessionAfterConnect(r)} :
               /\ session' = after
               /\ call' = [op |-> "get_mysql_schema", caller |-> "page",
                           args |-> n, eng |-> EngineDown,
                           before |-> openConns, outcome |-> r.outcome,
                           opened |-> r.opened, closed |-> r.closed,
                           executed |-> <<>>, rowcount |-> 0,
                           retSql |-> <<>>, retCount |-> 0,
                           schema |-> r.schema, steps |-> <<>>,
                           message |-> IF r.outcome = "ok" THEN <<>>
                                       ELSE IF n.first = "down"
                                       THEN <<ConnectMessage>>
                                       ELSE <<DeniedMessage>>]
               /\ \E shown \in
                     {IF r.outcome = "ok"
                      THEN <<Shown("success",
                                   <<"Connected. Found ",
                                     Str(IntText(Cardinality(DOMAIN r.schema))),
                                     " databases.">>)>>
                      ELSE <<Shown("error",
                                   <<"Failed: ",
                                     IF n.first = "down" THEN ConnectMessage
                                     ELSE DeniedMessage>>)>>} :
                     IF Truthy(after)
                     THEN \E database \in DOMAIN after.schema :
                            \E table \in DOMAIN after.schema[database].tables,
                               t \in TailInputs :
                               \E c \in {GetTableColumns(t, database, table)} :
                                  /\ openConns' = openConns
                                        + (r.opened - r.closed)
                                        + (c.opened - c.closed)
                                  /\ page' =
                                        [database |-> database,
                                         table |-> table,
                                         cols_meta |-> c.cols,
                                         crashed |-> c.outcome # "ok",
                                         invoked |-> <<"get_mysql_schema",
                                                       "get_table_columns">>,
                                         shown |-> shown]
                     ELSE /\ openConns' = openConns + (r.opened - r.closed)
                          /\ page' = [NoPage EXCEPT
                                        !.invoked = <<"get_mysql_schema">>,
                                        !.shown = shown]
    /\ UNCHANGED <<store, lake, today, modules>>

\* the Connect button
NextConnect == PageConnect

SpecConnect == InitSchema /\ [][NextConnect]_vars

\* what the user writes into the text area of "Run Custom SELECT"
PageSelectInputs ==
    {<<>>, QSelect1, <<" ">> \o QSelect1 \o <<"\n">>, QDrop, QWith}

\* the run in which "Run Query" of the Run Custom SELECT expander is
\* pressed: run_select(host, user, passwd, database, custom_sql.strip())
\* inside try/except, then the script goes on to get_table_columns
PageRunSelect ==
    /\ CanCall
    /\ SchemaTruthy
    /\ \E database \in DOMAIN session.schema :
         \E table \in DOMAIN session.schema[database].tables,
            custom_sql \in PageSelectInputs, eng \in SelectEngines(store),
            t \in TailInputs :
            \E r \in {RunSelect(Strip(custom_sql), eng, store)},
               c \in {GetTableColumns(t, database, table)} :
               /\ call' = PageCall("run_select", [sql |-> Strip(custom_sql)],
                                   eng, r)
               /\ openConns' = openConns + (r.opened - r.closed)
                                  + (c.opened - c.closed)
               /\ store' = r.store
               /\ page' = [database |-> database, table |-> table,
                           cols_meta |-> c.cols, crashed |-> c.outcome # "ok",
                           invoked |-> <<"run_select", "get_table_columns">>,
                           shown |->
                               IF r.outcome = "ok" THEN <<>>
                               ELSE <<Shown("error",
                                            <<"Query failed: ">> \o r.message)>>]
    /\ UNCHANGED <<session, lake, today, modules>>

\* every button of the page
NextPage ==
    \/ PageConnect
    \/ PageLoadData
    \/ PageRunSelect
    \/ PageInsertRow
    \/ PageDeleteRows
    \/ PageExecuteUpdate

\* the page as a browser session first sees it: nothing stored yet
InitPage ==
    /\ call = NoCall
    /\ openConns = 0
    /\ store = [rows |-> 1, changed |-> 0]
    /\ session = [stored |-> FALSE, schema |-> <<>>]
    /\ page = NoPage
    /\ lake = NoLake
    /\ today = FirstDay
    /\ modules = {}

SpecPage == InitPage /\ [][NextPage]_vars

\* the read operations
NextRead ==
    \/ CallFetchTable
    \/ CallRunSelect

SpecRead == Init /\ [][NextRead]_vars

\* fetch_table as the page calls it and as any other caller may
InitFetch ==
    /\ call = NoCall
    /\ openConns = 0
    /\ store = [rows |-> MaxRows, changed |-> 0]
    /\ session \in {[stored |-> FALSE, schema |-> <<>>]}
                    \cup {[stored |-> TRUE, schema |-> sc] : sc \in StoredSchemas}
    /\ page = NoPage
    /\ lake = NoLake
    /\ today = FirstDay
    /\ modules = {}

NextFetch ==
    \/ PageLoadData
    \/ CallFetchTable

SpecFetch == InitFetch /\ [][NextFetch]_vars

\* the mutation operations
NextWrite ==
    \/ CallInsertRow
    \/ CallDeleteRows
    \/ CallExecuteUpdate

SpecWrite == Init /\ [][NextWrite]_vars

---------------------------------------------------------------------------
(* pages/sql_queries.py: the Quick Queries tab.  The listing of the chosen *)
(* template that sqlparse formats above the button is not part of shown.   *)

\* the text of st.error in the Quick Queries tab, before the exception
MsgTweak ==
    "Error while running this query. You may need to tweak table/column names."

\* what the run before this one returned, when the same option was run
NoPrior == [lake |-> NoLake, day |-> NoDay, executed |-> <<>>, rows |-> {}]
PriorOf(c) ==
    [lake |-> c.args.lake, day |-> c.args.day, executed |-> c.executed,
     rows |-> c.rows]

\* the run in which "Run Predefined Query" is pressed with the option at a
\* position chosen: lines 669 and 673-681
RunPredefined(position, prior) ==
    \E query \in {QueryOf(position)}, mismatch \in {~lake.tables} :
       \E r \in {RunQuery(query, EngineRows(position, lake, today),
                          mismatch)} :
          /\ call' = [op |-> "run_query", caller |-> "catalog",
                      args |-> [position |-> position,
                                label |-> Options[position],
                                lake |-> lake, day |-> today],
                      eng |-> [connect |-> TRUE, reject |-> mismatch,
                               count |-> 0, script |-> FALSE,
                               lost |-> FALSE],
                      before |-> openConns, outcome |-> r.outcome,
                      opened |-> r.opened, closed |-> r.closed,
                      executed |-> r.executed,
                      rowcount |-> Cardinality(r.rows),
                      retSql |-> <<>>, retCount |-> Cardinality(r.rows),
                      schema |-> <<>>, steps |-> r.steps,
                      message |-> r.message, rows |-> r.rows,
                      divisors |->
                          IF mismatch THEN {}
                          ELSE EngineDivisors(position, lake, today),
                      prior |-> prior]
          /\ openConns' = openConns + (r.opened - r.closed)
          /\ page' =
                [NoPage EXCEPT
                   !.invoked = <<"run_query">>,
                   !.shown =
                      IF r.outcome # "ok"
                      THEN <<Shown("error", <<MsgTweak>> \o r.message)>>
                      ELSE IF r.rows = {}
                      THEN <<Shown("warning",
                                   <<"No results found for this query.">>)>>
                      ELSE <<Shown("dataframe", <<>>)>>]

\* an option is chosen in the select box and the button is pressed
PageRunPredefined ==
    /\ CanCall
    /\ \E position \in 1..Len(Options) :
          RunPredefined(position, NoPrior)
    /\ UNCHANGED <<store, session, lake, today, modules>>

\* the button is pressed again with the option left as it is
PageRunAgain ==
    /\ CanCall
    /\ call.op = "run_query"
    /\ call.outcome = "ok"
    /\ RunPredefined(call.args.position, PriorOf(call))
    /\ UNCHANGED <<store, session, lake, today, modules>>

\* the date advances
Tick ==
    /\ CanCall
    /\ \E i \in 1..(Len(DayInputs) - 1) :
          today = DayInputs[i] /\ today' = DayInputs[i + 1]
    /\ UNCHANGED <<call, openConns, store, session, page, lake, modules>>

\* the loaders outside the program change the rows of the file
LoadLake ==
    /\ CanCall
    /\ \E lk \in LakeInputs : lk # lake /\ lake' = lk
    /\ UNCHANGED <<call, openConns, store, session, page, today, modules>>

NextCatalog ==
    \/ PageRunPredefined
    \/ PageRunAgain
    \/ Tick
    \/ LoadLake

InitCatalog ==
    /\ call = NoCall
    /\ openConns = 0
    /\ store = [rows |-> 0, changed |-> 0]
    /\ session = [stored |-> FALSE, schema |-> <<>>]
    /\ page = NoPage
    /\ lake \in LakeInputs
    /\ today = FirstDay
    /\ modules = {}

SpecCatalog == InitCatalog /\ [][NextCatalog]_vars

---------------------------------------------------------------------------
(* pages/sql_queries.py: the Custom Query Runner tab.                      *)

\* the text the text area starts with: default_query.strip()
CustomDefault ==
    [label |-> <<>>, head |-> <<>>,
     words |-> <<"SELECT", "name", "FROM", "sqlite_master", "WHERE",
                 "type='table'", ";">>]

\* texts a user may put in its place
CustomDelete ==
    [label |-> <<>>, head |-> <<>>,
     words |-> <<"DELETE", "FROM", "players", ";">>]
CustomDrop ==
    [label |-> <<>>, head |-> <<>>,
     words |-> <<"DROP", "TABLE", "players", ";">>]

CustomInputs == {CustomDefault, CustomDelete, CustomDrop}

\* str(e) of the TypeError pandas raises when the cursor of a statement
\* that returns no rows has no description
NoRowsMessage == "'NoneType' object is not iterable"

\* run_query on a text of the text area.  pd.read_sql hands the text to
\* sqlite3 as it is; a statement that returns no rows is run by the engine
\* and read_sql then raises on the missing description, so conn.close()
\* is not reached
RunCustom(query, lk) ==
    IF query = CustomDefault
    THEN RunQuery(query, IF lk.tables THEN {Row(0, 1, Null)} ELSE {}, FALSE)
    ELSE IF ~lk.tables
    THEN RunQuery(query, {}, TRUE)
    ELSE [outcome |-> "Error", opened |-> 1, closed |-> 0,
          executed |-> <<Statement(query, <<>>)>>, rows |-> {},
          steps |-> <<"connect", "execute">>,
          message |-> <<NoRowsMessage>>]

\* the file after the engine ran the text: sqlite3 opens a transaction
\* before a DELETE, which is never committed and ends with the connection;
\* a DROP TABLE runs outside any transaction and stays
LakeAfter(query, lk) ==
    IF query = CustomDrop /\ lk.tables THEN [lk EXCEPT !.tables = FALSE]
    ELSE lk

\* the run in which "Run Custom Query" is pressed: get_tables() for the
\* table explorer, then run_query(user_query) inside try/except
PageRunCustom ==
    /\ CanCall
    /\ \E query \in CustomInputs :
          \E r \in {RunCustom(query, lake)} :
             /\ call' = [op |-> "run_query", caller |-> "custom",
                         args |-> [position |-> 0, label |-> <<>>,
                                   lake |-> lake, day |-> today],
                         eng |-> [connect |-> TRUE,
                                  reject |-> r.outcome # "ok",
                                  count |-> 0, script |-> FALSE,
                                  lost |-> FALSE],
                         before |-> openConns, outcome |-> r.outcome,
                         opened |-> r.opened, closed |-> r.closed,
                         executed |-> r.executed,
                         rowcount |-> Cardinality(r.rows),
                         retSql |-> <<>>, retCount |-> Cardinality(r.rows),
                         schema |-> <<>>, steps |-> r.steps,
                         message |-> r.message, rows |-> r.rows,
                         divisors |-> {}, prior |-> NoPrior]
             /\ openConns' = openConns + (r.opened - r.closed)
             /\ lake' = LakeAfter(query, lake)
             /\ page' =
                   [NoPage EXCEPT
                      !.invoked = <<"get_tables", "run_query">>,
                      !.shown =
                         IF r.outcome # "ok"
                         THEN <<Shown("error", <<"Error: ">> \o r.message)>>
                         ELSE IF r.rows = {}
                         THEN <<Shown("warning",
                                      <<"No results found for this query.">>)>>
                         ELSE <<Shown("dataframe", <<>>)>>]
    /\ UNCHANGED <<store, session, today, modules>>

\* the two buttons of the page, and the loaders outside the program
NextPlayground ==
    \/ PageRunPredefined
    \/ PageRunCustom
    \/ LoadLake

SpecPlayground == InitCatalog /\ [][NextPlayground]_vars

---------------------------------------------------------------------------
(* app.py: one run of main().  The selector's labels are written without   *)
(* their emoji.                                                            *)

\* the options of st.selectbox("Navigate to:", [...])
NavigationOptions ==
    <<"Home", "Live Matches", "Top Stats", "SQL Analytics", "CRUD Operations">>

\* the routing of main(): from <module> import <name>, then <name>()
Route ==
    ("Live Matches" :> [module |-> "pages.live_matches",
                        name |-> "show_live_matches"])
    @@ ("Top Stats" :> [module |-> "pages.top_stats",
                        name |-> "show_top_stats"])
    @@ ("SQL Analytics" :> [module |-> "pages.sql_queries",
                            name |-> "show_sql_queries"])
    @@ ("CRUD Operations" :> [module |-> "pages.crud_operations",
                              name |-> "show_crud_operations"])

\* the functions and classes each page module binds at its top level
ModuleNames ==
    ("pages.live_matches" :>
        {"CricbuzzAPI", "format_time", "show_innings_scorecard",
         "show_live_matches"})
    @@ ("pages.top_stats" :>
        {"search_players", "get_player_details", "get_player_stats",
         "parse_stats_table"})
    @@ ("pages.sql_queries" :>
        {"get_db_connection", "run_query", "get_tables", "get_table_schema",
         "main"})
    @@ ("pages.crud_operations" :>
        {"get_mysql_schema", "list_databases", "list_tables",
         "get_table_columns", "fetch_table", "run_select", "insert_row",
         "delete_rows", "execute_update"})

\* what a run finds outside the program:
\*   image   whether the file st.image names in the sidebar can be opened
\*   key     whether RAPIDAPI_KEY is set
\*   strict  whether the installed Streamlit raises on a second
\*           st.set_page_config
\*   api     what the live-matches request gives
EnvInputs ==
    [image : BOOLEAN, key : BOOLEAN, strict : BOOLEAN,
     api : {"series", "empty", "status", "raise"}]

MsgNoKey == "RAPIDAPI_KEY not found in environment variables."
MsgPageConfig == "set_page_config() can only be called once per app page"

\* the result of a part of the run: how it ended ("ok", "stopped" by
\* st.stop(), "ImportError", or "Error" for another exception), and what it
\* displayed
Part(outcome, shown, message) ==
    [outcome |-> outcome, shown |-> shown, message |-> message]

\* the top-level statements of a page module, run when it is first imported
ModuleBody(module, env) ==
    IF module \in {"pages.live_matches", "pages.top_stats"} /\ ~env.key
    THEN Part("stopped", <<Shown("error", <<MsgNoKey>>)>>, <<>>)
    ELSE IF module = "pages.top_stats"
    THEN Part("ok", <<Shown("title", <<"Player Search & Profile">>),
                      Shown("text_input", <<"Enter player name">>)>>, <<>>)
    ELSE IF module = "pages.crud_operations"
    THEN IF env.strict
         THEN Part("Error", <<>>, <<MsgPageConfig>>)
         ELSE Part("ok", <<Shown("title", <<"CRUD Operations">>),
                           Shown("header", <<"MySQL Connection">>),
                           Shown("button",
                                 <<"Connect & Discover Databases">>)>>,
                   <<>>)
    ELSE Part("ok", <<>>, <<>>)

\* from module import name: the module's statements run unless sys.modules
\* has it already, and the name is then looked up in it
Import(module, name, env, loaded) ==
    LET body == IF module \in loaded THEN Part("ok", <<>>, <<>>)
                ELSE ModuleBody(module, env)
    IN IF body.outcome # "ok"
       THEN [part |-> body, loaded |-> loaded]
       ELSE IF name \notin ModuleNames[module]
       THEN [part |-> Part("ImportError", body.shown,
                           <<"cannot import name '", name, "' from '",
                             module, "'">>),
             loaded |-> loaded \cup {module}]
       ELSE [part |-> body, loaded |-> loaded \cup {module}]

\* show_live_matches(): the request is made inside try/except
ShowLiveMatches(env) ==
    Part("ok",
         <<Shown("title", <<"Live Cricket Matches">>)>>
            \o (IF env.api = "status"
                THEN <<Shown("error", <<"API Error: ", "500">>),
                       Shown("warning", <<"No live matches found.">>)>>
                ELSE IF env.api = "raise"
                THEN <<Shown("error", <<"Error fetching data: ">>),
                       Shown("warning", <<"No live matches found.">>)>>
                ELSE IF env.api = "empty"
                THEN <<Shown("warning", <<"No live series available.">>)>>
                ELSE <<Shown("selectbox", <<"Select a Live Series">>)>>),
         <<>>)

\* show_home()
ShowHome == Part("ok", <<Shown("markdown", <<"Welcome">>)>>, <<>>)

\* the function a route calls once its import has bound it
Render(name, env) ==
    IF name = "show_live_matches" THEN ShowLiveMatches(env)
    ELSE Part("ok", <<Shown("title", <<name>>)>>, <<>>)

\* main() with an option selected: header, sidebar, then the route
Main(option, env, loaded) ==
    IF ~env.image
    THEN [part |-> Part("Error", <<>>, <<"Error opening image">>),
          loaded |-> loaded, invoked |-> <<>>,
          steps |-> <<"sidebar">>]
    ELSE IF option = "Home"
    THEN [part |-> ShowHome, loaded |-> loaded, invoked |-> <<"show_home">>,
          steps |-> <<"sidebar", "call">>]
    ELSE LET imp == Import(Route[option].module, Route[option].name, env,
                           loaded)
         IN IF imp.part.outcome # "ok"
            THEN [part |-> imp.part, loaded |-> imp.loaded,
                  invoked |-> <<>>, steps |-> <<"sidebar", "import">>]
            ELSE LET shown == Render(Route[option].name, env)
                 IN [part |-> Part(shown.outcome,
                                   imp.part.shown \o shown.shown, <<>>),
                     loaded |-> imp.loaded,
                     invoked |-> <<Route[option].name>>,
                     steps |-> <<"sidebar", "import", "call">>]

\* a run of app.py with an option chosen in the sidebar
AppMain ==
    /\ CanCall
    /\ \E i \in 1..Len(NavigationOptions), env \in EnvInputs :
          \E r \in {Main(NavigationOptions[i], env, modules)} :
             /\ call' = [NoCall EXCEPT
                            !.op = "main", !.caller = "app",
                            !.args = [page |-> NavigationOptions[i],
                                      env |-> env],
                            !.before = openConns,
                            !.outcome = r.part.outcome,
                            !.steps = r.steps,
                            !.message = r.part.message]
             /\ page' = [NoPage EXCEPT
                            !.crashed =
                                r.part.outcome \in {"ImportError", "Error"},
                            !.invoked = r.invoked,
                            !.shown = r.part.shown]
             /\ modules' = r.loaded
    /\ UNCHANGED <<openConns, store, session, lake, today>>

NextApp == AppMain

\* main() reads neither the session's schema nor the selected table
InitApp == Init /\ store.rows = 0

SpecApp == InitApp /\ [][NextApp]_vars

---------------------------------------------------------------------------
(* Properties.                                                             *)

\* every character of s is whitespace (also when s is empty)
Blank(s) == \A i \in 1..Len(s) : IsSpace(s[i])

\* after leading whitespace, s reads s-e-l-e-c-t in either letter case
HasSelectPrefix(s) ==
    \E i \in 0..(Len(s) - 6) :
        /\ \A j \in 1..i : IsSpace(s[j])
        /\ Lower(SubSeq(s, i + 1, i + 6)) = <<"s", "e", "l", "e", "c", "t">>

Mutations == {"insert_row", "delete_rows", "execute_update"}

\* C1: run_select fails with the validation error exactly on the inputs
\* whose trimmed, lower-cased text does not start with select; a rejected
\* call opens no connection and submits nothing; an accepted input that
\* reaches the engine is submitted exactly as given, a trailing statement
\* after a semicolon included.
C1_RunSelectPrefixGate ==
    call.op = "run_select" =>
        /\ (call.outcome = "ValueError") <=> ~HasSelectPrefix(call.args.sql)
        /\ call.outcome = "ValueError" =>
              call.opened = 0 /\ call.executed = <<>>
        /\ (call.outcome # "ValueError" /\ call.eng.connect) =>
              /\ Len(call.executed) = 1
              /\ call.executed[1].sql = call.args.sql

\* an accepted, padded input with a destructive second statement was run
C1_Witness ==
    /\ call.op = "run_select"
    /\ call.outcome = "ok"
    /\ IsSpace(call.args.sql[1])
    /\ HasSecondStatement(call.args.sql)
    /\ call.executed[1].sql = call.args.sql
    /\ call.eng.script

\* C2: a delete_rows call whose where clause is blank, and an execute_update
\* call whose set clause or where clause is blank, fails with the validation
\* error, opens no connection, submits no statement and leaves the store and
\* the open connections as they were.
C2_BlankClauseRejected ==
    [][(\/ call'.op = "delete_rows" /\ Blank(call'.args.where)
        \/ call'.op = "execute_update"
              /\ (Blank(call'.args.set) \/ Blank(call'.args.where)))
       => /\ call'.outcome = "ValueError"
          /\ call'.opened = 0
          /\ call'.executed = <<>>
          /\ store' = store
          /\ openConns' = openConns]_vars

\* an update with a set clause and a whitespace-only where clause was refused
C2_Witness ==
    /\ call.op = "execute_update"
    /\ ~Blank(call.args.set)
    /\ call.args.where # <<>>
    /\ Blank(call.args.where)
    /\ call.outcome = "ValueError"
    /\ store.rows > 0

\* C3: the descriptor a discovery call returns has none of the names
\* information_schema, performance_schema, mysql, sys as a key, whatever
\* the engine lists.
C3_NoSystemDatabase ==
    (call.op = "get_mysql_schema" /\ call.outcome = "ok") =>
        DOMAIN call.schema
            \cap {"information_schema", "performance_schema", "mysql", "sys"}
          = {}

\* the engine listed its system databases and a descriptor came back
C3_Witness ==
    /\ call.op = "get_mysql_schema"
    /\ call.outcome = "ok"
    /\ {"information_schema", "performance_schema", "mysql", "sys"}
          \subseteq call.args.reported
    /\ DOMAIN call.schema # {}

\* the rows the engine returned for the column query of a listed table
ReturnedColumnRows(db, tbl) ==
    IF tbl \in call.args.dropped THEN <<>> ELSE EngineCatalog[db].tables[tbl]

\* C4 as stated: every table listed in a returned descriptor has at least
\* one ColumnDescriptor, also when its column query returned no rows.
C4_EveryTableHasColumn ==
    (call.op = "get_mysql_schema" /\ call.outcome = "ok") =>
        \A db \in DOMAIN call.schema :
            \A tbl \in DOMAIN call.schema[db].tables :
                Len(call.schema[db].tables[tbl]) >= 1

\* C4 as amended: every base table the engine listed is in the descriptor
\* with one ColumnDescriptor per row its column query returned, in the
\* order of the rows; a table whose column query returned no rows is listed
\* with an empty sequence.
C4_ColumnsAsReturned ==
    (call.op = "get_mysql_schema" /\ call.outcome = "ok") =>
        \A db \in DOMAIN call.schema :
            /\ DOMAIN call.schema[db].tables = DOMAIN EngineCatalog[db].tables
            /\ \A tbl \in DOMAIN call.schema[db].tables :
                  LET rows == ReturnedColumnRows(db, tbl)
                      cols == call.schema[db].tables[tbl]
                  IN /\ Len(cols) = Len(rows)
                     /\ \A i \in 1..Len(rows) : cols[i].name = rows[i][1]

\* a listed table came back without columns, beside one with its columns
C4_Witness ==
    /\ call.op = "get_mysql_schema"
    /\ call.outcome = "ok"
    /\ "cricbuzz" \in DOMAIN call.schema
    /\ call.schema["cricbuzz"].tables[TxtPlayers] = <<>>
    /\ Len(call.schema["cricbuzz"].tables[TxtMatches]) = 2

\* C5: when the initial connection is served, discovery returns a
\* descriptor; a database whose block met an engine error is absent from
\* it, and every other listed user database that has base tables is present
\* with all of its base tables.
C5_FailureSwallowed ==
    (call.op = "get_mysql_schema" /\ call.args.first = "ok") =>
        /\ call.outcome = "ok"
        /\ \A db \in call.args.reported \cap UserDbs :
              IF call.args.faults[db] # "none"
              THEN db \notin DOMAIN call.schema
              ELSE DOMAIN EngineCatalog[db].tables # {} =>
                      /\ db \in DOMAIN call.schema
                      /\ DOMAIN call.schema[db].tables
                            = DOMAIN EngineCatalog[db].tables

\* one database failed after its tables were read, another one is present
C5_Witness ==
    /\ call.op = "get_mysql_schema"
    /\ call.outcome = "ok"
    /\ "cricbuzz" \in call.args.reported
    /\ call.args.faults["cricbuzz"] = "views"
    /\ DOMAIN call.schema = {"shop"}

\* C6 as stated, for the discovery calls in which the engine raises no
\* error: the call closes every connection it opened (also the one to a
\* database without base tables) and no connection is open when the next
\* call starts.
C6_ConnectionsClosed ==
    (/\ call.op = "get_mysql_schema"
     /\ call.outcome = "ok"
     /\ \A db \in DOMAIN call.args.faults : call.args.faults[db] = "none")
    => call.opened = call.closed /\ openConns = 0

\* the LIMIT operand of the statement sent, as a number
SentLimit(sql) ==
    LET n == LimitOperand(sql)
    IN IF n # <<>> /\ Head(n) = "-" THEN 0 - ParseNat(Tail(n)) ELSE ParseNat(n)

\* C7: the statement fetch_table submits for table t and limit n reads
\* SELECT * FROM <t quoted> LIMIT n; and a call that returns gives back that
\* text and a table of at most n rows.
C7_FetchTableText ==
    (call.op = "fetch_table" /\ call.executed # <<>>) =>
        /\ Len(call.executed) = 1
        /\ Str(call.executed[1].sql)
              = "SELECT * FROM <bq>" \o Str(call.args.table) \o "<bq> LIMIT "
                   \o Str(IntText(call.args.limit)) \o ";"
        /\ call.outcome = "ok" =>
              /\ call.retSql = call.executed[1].sql
              /\ call.retCount <= call.args.limit
              /\ (call.args.table = TxtPlayers /\ call.args.limit = 5) =>
                    /\ Str(call.retSql) = "SELECT * FROM <bq>players<bq> LIMIT 5;"
                    /\ call.retCount <= 5

\* a table of two rows was read with limit 1 and one row came back
C7_Witness ==
    /\ call.op = "fetch_table"
    /\ call.outcome = "ok"
    /\ call.args.table = TxtPlayers
    /\ call.args.limit = 1
    /\ store.rows = 2
    /\ call.retCount = 1

\* C8 as stated: whatever limit fetch_table is given, the LIMIT operand of
\* the statement it builds is a positive integer within a fixed bound.
C8_LimitBoundedPositive ==
    (call.op = "fetch_table" /\ call.executed # <<>>) =>
        SentLimit(call.executed[1].sql) \in 1..10000

\* C8 as amended: the LIMIT operand is the integer fetch_table was given,
\* unchanged; it lies in 1..10000 for every call the page's Load Data
\* makes, whose number input admits no other value.
C8_LimitAsGiven ==
    (call.op = "fetch_table" /\ call.executed # <<>>) =>
        /\ SentLimit(call.executed[1].sql) = call.args.limit
        /\ call.caller = "page" =>
              SentLimit(call.executed[1].sql) \in 1..10000

\* the page loaded a table with the largest limit its input admits
C8_Witness ==
    /\ call.op = "fetch_table"
    /\ call.caller = "page"
    /\ call.outcome = "ok"
    /\ call.args.limit = 10000
    /\ SentLimit(call.executed[1].sql) = 10000

\* C9: the statement insert_row submits is INSERT INTO <table> with the
\* quoted columns in the order of the map and one placeholder per column;
\* the parameters are the values in the order of their columns, and no
\* value occurs in the text.
QuotedList(keys) ==
    IF keys = <<>> THEN ""
    ELSE Str(Join(<<",", " ">>, [i \in 1..Len(keys) |-> <<BQ>> \o keys[i] \o <<BQ>>]))

RECURSIVE Marks(_)
Marks(n) ==
    IF n = 0 THEN "" ELSE IF n = 1 THEN "%s" ELSE "%s, " \o Marks(n - 1)

C9_InsertParameterized ==
    (call.op = "insert_row" /\ call.executed # <<>>) =>
        LET data == call.args.data
            sent == call.executed[1]
        IN /\ Str(sent.sql)
                = "INSERT INTO <bq>" \o Str(call.args.table) \o "<bq> ("
                    \o QuotedList(Keys(data)) \o ") VALUES ("
                    \o Marks(Len(data)) \o ");"
           /\ Len(sent.params) = Len(data)
           /\ \A i \in 1..Len(data) :
                 /\ sent.params[i] = data[i][2]
                 /\ ~Contains(sent.sql, data[i][2])
           /\ (call.args.table = TxtTable /\ Keys(data) = <<TxtName, TxtTeam>>)
                 => Str(sent.sql)
                      = "INSERT INTO <bq>table<bq> (<bq>name<bq>, <bq>team<bq>) VALUES (%s, %s);"

\* the map {name, team} was inserted into the table named table
C9_Witness ==
    /\ call.op = "insert_row"
    /\ call.outcome = "ok"
    /\ call.args.table = TxtTable
    /\ Keys(call.args.data) = <<TxtName, TxtTeam>>
    /\ call.executed[1].params = <<ValTest, ValIndia>>
    /\ call.retCount = 1

\* C10: a successful mutation returns the row count the engine reported for
\* its statement and the text of the one statement it submitted.
C10_ReturnsCountAndText ==
    (call.op \in Mutations /\ call.outcome = "ok") =>
        /\ Len(call.executed) = 1
        /\ call.retSql = call.executed[1].sql
        /\ call.retCount = call.eng.count

\* a delete that removed two rows returned
C10_Witness ==
    /\ call.op = "delete_rows"
    /\ call.outcome = "ok"
    /\ call.retCount = 2
    /\ call.retSql = call.executed[1].sql

\* the positions of a step in the steps of a call
Positions(steps, name) == {i \in 1..Len(steps) : steps[i] = name}

\* every occurrence of step a comes before every occurrence of step b
Precedes(steps, a, b) ==
    \A i \in Positions(steps, a), j \in Positions(steps, b) : i < j

\* C11: a mutation call submits at most one statement: none when the
\* request fails validation or the connection is refused, exactly one when
\* the request is valid and the connection is served.  The steps come in the
\* order validate, connect, execute, each at most once; a call that raises
\* an engine error ends at the step that raised (connect, its one execute,
\* or close), and the page run that made the call invoked the operation
\* once.
C11_OneStatementOnce ==
    call.op \in Mutations =>
        /\ Len(call.executed) <= 1
        /\ Cardinality(Positions(call.steps, "execute")) = Len(call.executed)
        /\ Cardinality(Positions(call.steps, "connect")) <= 1
        /\ Cardinality(Positions(call.steps, "validate")) <= 1
        /\ call.outcome = "ValueError" =>
              call.executed = <<>> /\ Positions(call.steps, "connect") = {}
        /\ (call.outcome # "ValueError" /\ call.eng.connect) =>
              Len(call.executed) = 1
        /\ (call.outcome # "ValueError" /\ ~call.eng.connect) =>
              call.executed = <<>>
        /\ Precedes(call.steps, "validate", "connect")
        /\ Precedes(call.steps, "connect", "execute")
        /\ Positions(call.steps, "execute") # {} =>
              Positions(call.steps, "connect") # {}
        /\ call.outcome = "Error" =>
              call.steps[Len(call.steps)] \in {"connect", "execute", "close"}
        /\ call.caller = "page" =>
              Cardinality({i \in 1..Len(page.invoked) :
                              page.invoked[i] \in Mutations}) = 1

\* the engine rejected the statement of a delete form and the page went on
\* to show the failure
C11_Witness ==
    /\ call.op = "delete_rows"
    /\ call.caller = "page"
    /\ call.outcome = "Error"
    /\ call.eng.connect
    /\ Len(call.executed) = 1
    /\ call.steps = <<"validate", "build", "connect", "execute">>
    /\ page.invoked = <<"get_table_columns", "delete_rows">>
    /\ page.shown[1].kind = "error"

\* s from its first to its last character that is not whitespace
Trimmed(s) ==
    LET solid == {i \in 1..Len(s) : ~IsSpace(s[i])}
    IN IF solid = {} THEN <<>>
       ELSE SubSeq(s, CHOOSE i \in solid : \A j \in solid : i <= j,
                      CHOOSE i \in solid : \A j \in solid : i >= j)

\* the number of identifier quotes in a text
QuoteCount(s) == Cardinality({i \in 1..Len(s) : s[i] = BQ})

\* C12: the statement delete_rows submits is DELETE FROM <t quoted> WHERE w;
\* and the one execute_update submits is UPDATE <t quoted> SET s WHERE w;
\* where s and w are the clauses as typed without their leading and
\* trailing whitespace.  The text depends on the table and the clauses
\* only, and the only identifier quotes in it are the two around the table.
C12_ClauseTextExact ==
    /\ (call.op = "delete_rows" /\ call.executed # <<>>) =>
          /\ Str(call.executed[1].sql)
                = "DELETE FROM <bq>" \o Str(call.args.table) \o "<bq> WHERE "
                    \o Str(Trimmed(call.args.where)) \o ";"
          /\ QuoteCount(call.executed[1].sql) = 2
          /\ (call.args.table = TxtPlayers /\ Trimmed(call.args.where) = WIdEq1)
                => Str(call.executed[1].sql)
                     = "DELETE FROM <bq>players<bq> WHERE id = 1;"
    /\ (call.op = "execute_update" /\ call.executed # <<>>) =>
          /\ Str(call.executed[1].sql)
                = "UPDATE <bq>" \o Str(call.args.table) \o "<bq> SET "
                    \o Str(Trimmed(call.args.set)) \o " WHERE "
                    \o Str(Trimmed(call.args.where)) \o ";"
          /\ QuoteCount(call.executed[1].sql) = 2
          /\ (call.args.table = TxtTable /\ Trimmed(call.args.set) = SName
                 /\ Trimmed(call.args.where) = WIdEq1)
                => Str(call.executed[1].sql)
                     = "UPDATE <bq>table<bq> SET name='x' WHERE id = 1;"

\* an update whose two clauses were typed with whitespace around them ran
C12_Witness ==
    /\ call.op = "execute_update"
    /\ call.outcome = "ok"
    /\ IsSpace(call.args.set[1])
    /\ IsSpace(call.args.where[Len(call.args.where)])
    /\ Str(call.retSql) = "UPDATE <bq>table<bq> SET name='x' WHERE id = 1;"

\* the words that begin a statement that changes the file or its settings
WritingWords ==
    {"INSERT", "UPDATE", "DELETE", "REPLACE", "DROP", "ALTER", "CREATE",
     "ATTACH", "DETACH", "PRAGMA", "VACUUM", "REINDEX", "BEGIN", "COMMIT",
     "insert", "update", "delete", "replace", "drop", "alter", "create",
     "attach", "detach", "pragma", "vacuum", "reindex", "begin", "commit"}

\* one statement that reads: it begins with SELECT or WITH, none of its
\* words begins a writing statement, and nothing follows its semicolon
ReadingStatement(words) ==
    /\ words # <<>>
    /\ words[1] \in {"SELECT", "WITH"}
    /\ \A i \in 1..Len(words) : words[i] \notin WritingWords
    /\ \A i \in 1..Len(words) : words[i] = ";" => i = Len(words)

\* C13 as stated: the text of every template of the catalog, and so the
\* text of every predefined query that is run, begins with SELECT or WITH
\* once its leading whitespace is removed, and is a reading statement.
C13_StartsWithSelectOrWith ==
    (call.op = "run_query" /\ call.caller = "catalog") =>
        /\ \A i \in 1..Len(call.executed[1].sql.head) :
              call.executed[1].sql.head[i] = "ws"
        /\ ReadingStatement(call.executed[1].sql.words)

\* C13 as amended: the catalog has 25 templates; in each of them, and so in
\* the text of every predefined query that is run, only whitespace and
\* comments come before the statement, and the statement is one reading
\* statement that begins with SELECT or WITH.
C13_ReadingAfterComment ==
    /\ Len(queriesLiteral) = 25
    /\ \A i \in 1..Len(queriesLiteral) :
          /\ \A j \in 1..Len(queriesLiteral[i].head) :
                queriesLiteral[i].head[j] \in {"ws", "comment"}
          /\ ReadingStatement(queriesLiteral[i].words)
    /\ (call.op = "run_query" /\ call.caller = "catalog") =>
          /\ \A j \in 1..Len(call.executed[1].sql.head) :
                call.executed[1].sql.head[j] \in {"ws", "comment"}
          /\ ReadingStatement(call.executed[1].sql.words)

\* a template that begins with a comment was run and returned
C13_Witness ==
    /\ call.op = "run_query"
    /\ call.outcome = "ok"
    /\ call.args.position = 6
    /\ call.executed[1].sql.head = <<"ws", "comment", "ws">>
    /\ call.executed[1].sql.words[1] = "SELECT"

\* C14: the select box offers exactly 25 options with distinct labels, the
\* option at position i is the label that begins "Qi." (definition order,
\* so "Q2." comes before "Q10."), its template is the i-th pair of the
\* mapping, and the text a run executes is the template paired with the
\* chosen label.
C14_PositionAddressesQuery ==
    /\ Len(Options) = 25
    /\ Len(queriesLiteral) = 25
    /\ \A i, j \in 1..Len(Options) : Options[i] = Options[j] => i = j
    /\ \A i \in 1..Len(Options) :
          /\ StartsWith(Options[i], <<"Q">> \o NatText(i) \o <<".">>)
          /\ queriesLiteral[i].label = Options[i]
    /\ (call.op = "run_query" /\ call.caller = "catalog") =>
          /\ call.args.label = Options[call.args.position]
          /\ Len(call.executed) = 1
          /\ call.executed[1].sql = queriesLiteral[call.args.position]
          /\ call.executed[1].sql.label = call.args.label

\* the tenth option was chosen and its template was run
C14_Witness ==
    /\ call.op = "run_query"
    /\ call.outcome = "ok"
    /\ call.args.position = 10
    /\ StartsWith(call.args.label, <<"Q", "1", "0", ".">>)
    /\ call.executed[1].sql = Query10

\* the words with which a statement reads the clock or a random source
VolatileWords ==
    {"'now'", "CURRENT_DATE", "CURRENT_TIME", "CURRENT_TIMESTAMP",
     "current_date", "current_time", "current_timestamp",
     "RANDOM", "random", "RANDOMBLOB", "randomblob"}

\* the button was pressed twice for one option and the file held the same
\* rows at both runs
RanTwiceOnSameData ==
    /\ call.op = "run_query"
    /\ call.caller = "catalog"
    /\ call.outcome = "ok"
    /\ call.prior # NoPrior
    /\ call.prior.lake = call.args.lake

ClampsBeforeSqrt(words) ==
    \A i \in 1..Len(words) :
       words[i] \in {"sqrt", "SQRT"} =>
          /\ i + 2 <= Len(words)
          /\ words[i + 1] = "("
          /\ words[i + 2] \in {"MAX", "max"}

\* C16, for the player with a single counted innings, whose innings all
\* have the same runs: when Q19 or Q23 is run, the statement clamps the
\* argument of its square root at zero and the row of the player reports a
\* standard deviation of 0, not NULL.
C16_StdevClampedToZero ==
    (/\ call.op = "run_query"
     /\ call.caller = "catalog"
     /\ call.outcome = "ok"
     /\ call.args.position \in {19, 23}
     /\ Len(call.args.lake.innings) = 1) =>
        /\ ClampsBeforeSqrt(call.executed[1].sql.words)
        /\ call.rows # {}
        /\ \A r \in call.rows : r.value = Num(0)

\* the word at a place of a statement, "" past its end
WordAt(words, i) == IF i \in 1..Len(words) THEN words[i] ELSE ""

\* the division at place i divides by NULLIF(x, 0)
DividesByNullif(words, i) ==
    /\ WordAt(words, i + 1) = "NULLIF"
    /\ WordAt(words, i + 2) = "("
    /\ \E j \in (i + 3)..Len(words) :
          /\ words[j] = ","
          /\ \A k \in (i + 3)..(j - 1) : words[k] # ","
          /\ WordAt(words, j + 1) = "0"
          /\ WordAt(words, j + 2) = ")"

\* the division at place i is in the THEN branch of CASE WHEN x > 0, where
\* x is what it divides by
DividesInsideCase(words, i) ==
    \E k \in 1..(i - 1) :
       /\ words[k] = "CASE"
       /\ WordAt(words, k + 1) = "WHEN"
       /\ WordAt(words, k + 2) = WordAt(words, i + 1)
       /\ WordAt(words, k + 3) = ">"
       /\ WordAt(words, k + 4) = "0"
       /\ WordAt(words, k + 5) = "THEN"
       /\ \A m \in k..i : words[m] \notin {"ELSE", "END"}

\* the divisions of the catalog that have neither guard, each with the
\* position of its template and what it divides by
UnguardedDivisions ==
    UNION {{<<p, WordAt(queriesLiteral[p].words, i + 1)>> :
               i \in {j \in 1..Len(queriesLiteral[p].words) :
                         /\ queriesLiteral[p].words[j] = "/"
                         /\ ~DividesByNullif(queriesLiteral[p].words, j)
                         /\ ~DividesInsideCase(queriesLiteral[p].words, j)}} :
           p \in 1..Len(queriesLiteral)}

HasPart(parts, text) == \E i \in 1..Len(parts) : parts[i] = text

\* C18, for the delete and update forms: when the statement the form sent
\* is refused by the engine, the exception the operation raises, and the
\* error the page shows, carry the text of the statement and the message
\* of the engine.
C18_FailureCarriesSqlAndMessage ==
    (/\ call.caller = "page"
     /\ call.op \in {"delete_rows", "execute_update"}
     /\ call.outcome = "Error"
     /\ call.executed # <<>>) =>
        /\ HasPart(call.message, RejectMessage)
        /\ HasPart(call.message, Str(call.executed[1].sql))
        /\ \E i \in 1..Len(page.shown) :
              /\ page.shown[i].kind = "error"
              /\ HasPart(page.shown[i].parts, RejectMessage)
              /\ HasPart(page.shown[i].parts, Str(call.executed[1].sql))

\* the last call was a discovery whose first connection was refused
ConnectRefused(c) == c.op = "get_mysql_schema" /\ c.args.first = "down"

\* C19: a discovery whose first connection is refused raises: it opens no
\* connection and returns no descriptor; the page shows the error, shows
\* no success, and leaves the schema of the session as it was.
C19_RefusedConnectionRaises ==
    /\ [](ConnectRefused(call) =>
            /\ call.outcome = "Error"
            /\ call.opened = 0
            /\ call.schema = <<>>
            /\ call.message = <<ConnectMessage>>
            /\ call.caller = "page" =>
                  page.shown = <<Shown("error", <<"Failed: ", ConnectMessage>>)>>)
    /\ [][ConnectRefused(call') => session' = session]_vars

\* the connection was refused after an earlier discovery had stored a
\* schema, which is still the schema of the session
C19_Witness ==
    /\ ConnectRefused(call)
    /\ call.caller = "page"
    /\ call.outcome = "Error"
    /\ session.stored
    /\ "cricbuzz" \in DOMAIN session.schema
    /\ page.shown[1].kind = "error"

\* ORDINAL_POSITION of a column of a base table in the engine's catalog
OrdinalPosition(db, tbl, name) ==
    CHOOSE i \in 1..Len(EngineCatalog[db].tables[tbl]) :
       EngineCatalog[db].tables[tbl][i][1] = name

\* C20: in every descriptor a discovery returns, the names under views are
\* the views of the database and none of them carries a column, no name
\* under tables is the name of a view, every name under tables is a base
\* table, and the columns of a table are listed by rising ordinal position.
C20_ColumnsOnlyForBaseTables ==
    (call.op = "get_mysql_schema" /\ call.outcome = "ok") =>
        \A db \in DOMAIN call.schema :
           /\ DOMAIN call.schema[db].views = EngineCatalog[db].views
           /\ \A v \in DOMAIN call.schema[db].views :
                 call.schema[db].views[v] = <<>>
           /\ DOMAIN call.schema[db].tables = DOMAIN EngineCatalog[db].tables
           /\ \A tbl \in DOMAIN call.schema[db].tables :
                 LET cols == call.schema[db].tables[tbl]
                 IN /\ Str(tbl) \notin DOMAIN call.schema[db].views
                    /\ \A i \in 1..Len(cols) :
                          OrdinalPosition(db, tbl, cols[i].name) = i
                    /\ \A i, j \in 1..Len(cols) :
                          i < j => OrdinalPosition(db, tbl, cols[i].name)
                                      < OrdinalPosition(db, tbl, cols[j].name)

\* a discovery returned a database that has a view and a table of three
\* columns
C20_Witness ==
    /\ call.op = "get_mysql_schema"
    /\ call.outcome = "ok"
    /\ "cricbuzz" \in DOMAIN call.schema
    /\ DOMAIN call.schema["cricbuzz"].views = {"top_players"}
    /\ call.schema["cricbuzz"].views["top_players"] = <<>>
    /\ Len(call.schema["cricbuzz"].tables[TxtPlayers]) = 3
    /\ call.schema["cricbuzz"].tables[TxtPlayers][2].name = TxtName

\* the descriptor of a column of the form's metadata list
MetaOf(cols_meta, name) ==
    cols_meta[CHOOSE i \in 1..Len(cols_meta) : cols_meta[i].name = name]

\* C21: the map the Add Row form passes to insert_row names only columns
\* of the metadata list, each once and in the order of the list, none of
\* them flagged auto_increment in whatever letter case and none with a
\* blank input; insert_row sends every column and value it is given.
C21_NoAutoIncrementNoBlank ==
    (call.op = "insert_row" /\ call.caller = "page") =>
        LET data == call.args.data
        IN /\ \A i \in 1..Len(data) :
                 /\ \E k \in 1..Len(page.cols_meta) :
                       page.cols_meta[k].name = data[i][1]
                 /\ ~Contains(Lower(MetaOf(page.cols_meta, data[i][1]).extra),
                              ExtraAuto)
                 /\ \E k \in 1..Len(data[i][2]) : data[i][2][k] # " "
           /\ \A i, j \in 1..Len(data) :
                 i < j => \E k, m \in 1..Len(page.cols_meta) :
                             /\ k < m
                             /\ page.cols_meta[k].name = data[i][1]
                             /\ page.cols_meta[m].name = data[j][1]
           /\ call.executed # <<>> =>
                 /\ call.executed[1].params = [i \in 1..Len(data) |-> data[i][2]]
                 /\ \A i \in 1..Len(data) :
                       Contains(call.executed[1].sql,
                                <<BQ>> \o data[i][1] \o <<BQ>>)

\* the form of a table whose first column is flagged AUTO_INCREMENT in
\* capitals was submitted with one input filled and one left blank
C21_Witness ==
    /\ call.op = "insert_row"
    /\ call.caller = "page"
    /\ call.outcome = "ok"
    /\ Len(page.cols_meta) = 3
    /\ page.cols_meta[1].extra = ExtraAutoUpper
    /\ Keys(call.args.data) = <<TxtTeam>>
    /\ call.executed[1].params = <<ValIndia>>

---------------------------------------------------------------------------
(* The descriptor between runs of the CRUD page.                           *)

\* the operations a button of the panel starts
PanelOps ==
    {"fetch_table", "run_select", "insert_row", "delete_rows", "execute_update"}

\* the run was one in which a button of the panel was pressed
PanelRun == call.caller = "page" /\ call.op \in PanelOps

\* the database and table the run worked on are entries of the descriptor
\* st.session_state holds
TargetFromSession ==
    /\ session.stored
    /\ page.database \in DOMAIN session.schema
    /\ page.table \in DOMAIN session.schema[page.database].tables

\* C22: no descriptor survives a run of the page: a run that pressed a
\* button of the panel and whose operation the engine served leaves no
\* descriptor in the session, and the database and table it worked on are
\* not entries of a descriptor that an earlier run's discovery produced.
C22_NoDescriptorSurvives ==
    PanelRun /\ call.outcome = "ok" /\ ~page.crashed
        => ~session.stored /\ ~TargetFromSession

---------------------------------------------------------------------------
(* Mutations and the engine's autocommit.                                  *)

\* the call got past cur.execute: the engine accepted the statement
Accepted(c) == Positions(c.steps, "close") # {}

\* the selected table after the engine applied the statement of a call
Applied(op, st, n) ==
    IF op = "insert_row" THEN [st EXCEPT !.rows = @ + n]
    ELSE IF op = "delete_rows"
    THEN [rows |-> st.rows - n, changed |-> Min(st.changed, st.rows - n)]
    ELSE [st EXCEPT !.changed = Max(@, n)]

\* C23: a mutation call runs its one statement on an autocommit connection
\* and nothing else (no transaction is opened, nothing is rolled back):
\* once the engine has accepted the statement its effect is in the store,
\* also when a later step of the call raises; a call whose statement the
\* engine did not accept leaves the store as it was.
C23_AcceptedMutationCommitted ==
    [][call'.op \in Mutations =>
          /\ CreateConnection.autocommit
          /\ Len(call'.executed) <= 1
          /\ \A i \in 1..Len(call'.steps) :
                call'.steps[i] \in {"validate", "build", "connect", "execute",
                                    "close"}
          /\ IF Accepted(call')
             THEN store' = Applied(call'.op, store, call'.eng.count)
             ELSE store' = store]_vars

\* a DELETE of two rows was applied and the call then raised at close
C23_Witness ==
    /\ call.op = "delete_rows"
    /\ call.outcome = "Error"
    /\ call.eng.lost
    /\ call.eng.count = 2
    /\ Accepted(call)
    /\ call.message = <<LostMessage>>
    /\ store.rows = 0

---------------------------------------------------------------------------
(* Databases without base tables.                                          *)

\* C24: every database of a descriptor get_mysql_schema returns has at
\* least one base table; a database the engine lists that has no base
\* table, one that holds only views included, is not in the descriptor.
C24_EveryDatabaseHasBaseTable ==
    call.op = "get_mysql_schema" /\ call.outcome = "ok" =>
        /\ \A db \in DOMAIN call.schema :
              DOMAIN call.schema[db].tables # {}
        /\ \A db \in Visited(call.args.reported) :
              DOMAIN EngineCatalog[db].tables = {} =>
                  db \notin DOMAIN call.schema

\* the engine listed archive, which holds one view and no table, next to
\* cricbuzz, and served every statement: only cricbuzz is in the descriptor
C24_Witness ==
    /\ call.op = "get_mysql_schema"
    /\ call.outcome = "ok"
    /\ {"archive", "cricbuzz"} \subseteq call.args.reported
    /\ \A db \in Visited(call.args.reported) : call.args.faults[db] = "none"
    /\ EngineCatalog["archive"].views # {}
    /\ "archive" \notin DOMAIN call.schema
    /\ "cricbuzz" \in DOMAIN call.schema

---------------------------------------------------------------------------
(* A failed Connect.                                                       *)

\* the run pressed Connect and the discovery raised
ConnectFailed(c) ==
    c.op = "get_mysql_schema" /\ c.caller = "page" /\ c.outcome # "ok"

\* C25: a run in which Connect fails leaves the schema of the session as
\* it was and shows the error; when a schema was stored before, the run
\* goes on to the panel for a database and table of that schema (up to the
\* rediscovery of the columns); when none was stored, the run ends after
\* the discovery with no panel.
C25_FailedConnectKeepsSchema ==
    [][ConnectFailed(call') =>
          /\ session' = session
          /\ Len(page'.shown) = 1
          /\ page'.shown[1].kind = "error"
          /\ IF SchemaTruthy
             THEN /\ page'.invoked = <<"get_mysql_schema", "get_table_columns">>
                  /\ page'.database \in DOMAIN session.schema
                  /\ page'.table \in
                        DOMAIN session.schema[page'.database].tables
             ELSE /\ page'.invoked = <<"get_mysql_schema">>
                  /\ page'.database = ""
                  /\ page'.cols_meta = <<>>]_vars

\* Connect failed while the session held a schema, and the run showed the
\* Add Row form for a table of it
C25_Witness ==
    /\ ConnectFailed(call)
    /\ session.stored
    /\ page.database \in DOMAIN session.schema
    /\ page.table \in DOMAIN session.schema[page.database].tables
    /\ page.cols_meta # <<>>
    /\ ~page.crashed
    /\ page.shown[1].kind = "error"

---------------------------------------------------------------------------
(* Failures the page does not catch.                                       *)

\* some element the run displayed is an error message
ErrorShown == \E i \in 1..Len(page.shown) : page.shown[i].kind = "error"

\* C26: no failure of an operation the page invokes escapes the run: the
\* run is not ended by an exception, the rediscovery of the columns that
\* get_table_columns makes included, and a failed operation is shown as an
\* error message.
C26_NoFailureEscapes ==
    call.caller = "page" =>
        /\ ~page.crashed
        /\ call.outcome # "ok" => ErrorShown

---------------------------------------------------------------------------
(* The Add Row form with nothing to insert.                                *)

\* C27: the Add Row form sends an INSERT only when at least one column has
\* a value that is not blank: a submission in which every input is blank
\* submits no statement to the engine.
C27_BlankFormSendsNothing ==
    (call.op = "insert_row" /\ call.caller = "page" /\ call.executed # <<>>)
        => call.args.data # <<>>

---------------------------------------------------------------------------
(* The gate of the panel.                                                  *)

\* the session holds a descriptor that names at least one database
HoldsDatabases(s) == s.stored /\ DOMAIN s.schema # {}

\* the run got as far as the panel: it reached the rediscovery of the
\* columns of the selected table
PanelShown(p) ==
    \E i \in 1..Len(p.invoked) : p.invoked[i] = "get_table_columns"

\* a run in which the discovery is served and finds no user database: the
\* page reports success with a count of 0 and shows no panel
ConnectFindsNothing ==
    /\ PageConnect
    /\ call'.outcome = "ok"
    /\ call'.schema = <<>>
    /\ session' = [stored |-> TRUE, schema |-> <<>>]
    /\ page'.shown = <<Shown("success", <<"Connected. Found ", "0",
                                          " databases.">>)>>
    /\ ~PanelShown(page')

\* C28: the panel is shown exactly in the runs that end with a session
\* holding a descriptor with at least one database.  A run that pressed a
\* button of the panel started from such a session; such a session comes
\* only from a served discovery that found a database; and a served
\* discovery that finds no user database is a run the page completes with
\* the success message and no panel.
C28_PanelExactlyWithSchema ==
    /\ [][/\ PanelShown(page') <=> HoldsDatabases(session')
          /\ call'.op \in PanelOps => HoldsDatabases(session)
          /\ (HoldsDatabases(session') /\ ~HoldsDatabases(session)) =>
                /\ call'.op = "get_mysql_schema"
                /\ call'.outcome = "ok"
                /\ session'.schema = call'.schema
          /\ (call'.op = "get_mysql_schema" /\ call'.outcome = "ok"
                 /\ call'.schema = <<>>) =>
                /\ page'.shown[1].kind = "success"
                /\ ~PanelShown(page')]_vars
    /\ [](CanCall => ENABLED ConnectFindsNothing)

\* the discovery was served and found nothing: success is shown, the
\* session holds an empty descriptor, and no panel operation ran
C28_Witness ==
    /\ call.op = "get_mysql_schema"
    /\ call.caller = "page"
    /\ call.outcome = "ok"
    /\ call.schema = <<>>
    /\ session.stored
    /\ ~HoldsDatabases(session)
    /\ page.shown = <<Shown("success", <<"Connected. Found ", "0",
                                         " databases.">>)>>
    /\ ~PanelShown(page)

---------------------------------------------------------------------------
(* What run_query lets through.                                            *)

\* C29: run_query submits only reading statements: a text that is not one
\* SELECT or WITH statement, from either button of the playground, is
\* refused before anything is submitted to the engine (stated for the runs
\* on a file that has its tables).
C29_RunQueryReadOnly ==
    (call.op = "run_query" /\ call.args.lake.tables) =>
        \A i \in 1..Len(call.executed) :
           ReadingStatement(call.executed[i].sql.words)

---------------------------------------------------------------------------
(* Navigation.                                                             *)

\* C30: whichever option of the navigation selector is chosen, the run
\* calls a render function that the routed module defines and ends with
\* the page rendered, not with an import failure (stated for the runs in
\* which the sidebar image opens and the API key is set).
C30_EveryOptionRenders ==
    (call.op = "main" /\ call.args.env.image /\ call.args.env.key) =>
        /\ call.outcome # "ImportError"
        /\ Len(page.invoked) = 1
        /\ call.args.page # "Home" =>
              page.invoked[1] \in ModuleNames[Route[call.args.page].module]

====
